---------------------------- MODULE Spec2Model ----------------------------
(***************************************************************************)
(* A model of the value-lowering layer of LDC: the global-object registry  *)
(* (declareGlobal), the constant folder (ToConstElemVisitor, toConstElem,  *)
(* tryToConstElem) and the run-time cast engine (DtoCast and its helpers). *)
(*                                                                         *)
(* The compiler is single threaded: every action below is one complete     *)
(* call of an entry point, made by the statement-level code generator.     *)
(* fatal() ends the process: once `aborted` holds nothing changes any more.*)
(***************************************************************************)
EXTENDS Integers, Sequences, FiniteSets, TLC

VARIABLES
  target,              \* global.params.targetTriple and the -fthread-model option
  module,              \* the llvm::Module's list of global variables, in creation order
  errors,              \* global.errors: diagnostics printed (not gagged)
  aborted,             \* fatal() was called: the process has exited
  gag,                 \* global.gag
  gaggedErrors,        \* global.gaggedErrors
  stringLiteralCache,  \* IRState's cache of string literal globals
  structLiteralCache,  \* IRState's cache StructLiteralExp* -> constant
  inuse,               \* VarDeclaration::inuse, per variable
  overflow,            \* the native stack was exhausted by unbounded recursion
  values,              \* the DValue objects allocated so far, in allocation order
  scopebb,             \* the instructions emitted into the current basic block
  tf,                  \* the TypeFunction whose signature is lowered
  irFuncTys,           \* the IrFuncTy descriptors built for it, in order
  last,                \* the last call made: its arguments, what it returned, what it raised
  ops                  \* number of calls made so far

vars == <<target, module, errors, aborted, gag, gaggedErrors, stringLiteralCache,
          structLiteralCache, inuse, overflow, values, scopebb, tf, irFuncTys, last, ops>>

foldVars == <<gag, gaggedErrors, stringLiteralCache, structLiteralCache, inuse, overflow>>

castVars == <<values, scopebb>>

abiVars == <<tf, irFuncTys>>

-----------------------------------------------------------------------------
(* Bounds of the model *)

\* number of entry-point calls in one run of the registry model
MaxDeclOps == 3

\* number of entry-point calls in one run of the folder model
MaxFoldOps == 2

\* depth of nested toConstElem calls the native stack holds
MaxDepth == 6

\* number of DtoCast calls in one run of the cast model
MaxCastOps == 2

\* number of DtoAssign calls in one run of the assignment model
MaxAssignOps == 2

\* number of times the one signature is lowered in a run of the ABI model
MaxClassifyOps == 2

\* number of initializers folded and lowered in a run of the parity model
MaxParityOps == 2

\* number of storage operations (makeLValue, DtoAllocaDump, makeVarDValue) in
\* a run of the storage model
MaxStorageOps == 2

\* number of declarations and definitions in a run of the definition model
MaxDefineOps == 2

-----------------------------------------------------------------------------
(* Small helpers *)

\* a value bound to a name for the rest of a computation (a local variable)
Bind(v, Op(_)) == Op(v)

Min(S) == CHOOSE x \in S : \A y \in S : x <= y

Fill(n, b) == [k \in 1..n |-> b]

-----------------------------------------------------------------------------
(* The target description and the llvm::Module *)

NotThreadLocal == "NotThreadLocal"

clThreadModelDefault == "GeneralDynamic"

\* the targets the model is run for
TargetSet ==
  {[arch |-> "x86",    windows |-> FALSE, threadModel |-> "GeneralDynamic"],
   [arch |-> "x86",    windows |-> TRUE,  threadModel |-> "InitialExec"],
   [arch |-> "wasm32", windows |-> FALSE, threadModel |-> "GeneralDynamic"],
   [arch |-> "avr",    windows |-> FALSE, threadModel |-> "GeneralDynamic"],
   [arch |-> "ppc",    windows |-> FALSE, threadModel |-> "LocalDynamic"]}

NoInit == [k |-> "nullptr"]

\* llvm::Module::getGlobalVariable(name, AllowInternal = true): the index of the
\* global variable whose symbol is exactly `name`, 0 when there is none
getGlobalVariable(mod, name) ==
  LET hit == {i \in 1..Len(mod) : mod[i].sym = <<name, 0>>}
  IN IF hit = {} THEN 0 ELSE Min(hit)

\* new llvm::GlobalVariable(module, ...): appended to the module; LLVM's symbol
\* table makes the symbol unique by a numeric suffix when the name is taken.
\* origin records what the global was created for (the name asked for, or the
\* literal expression); no code reads it.
NewGlobalVariable(mod, type, isConstant, linkage, init, name, tls) ==
  LET taken == Cardinality({i \in 1..Len(mod) : mod[i].name = name})
  IN Append(mod, [name |-> name, sym |-> <<name, taken>>, type |-> type,
                  isConstant |-> isConstant, linkage |-> linkage, init |-> init,
                  tls |-> tls, dllimport |-> FALSE, origin |-> name])

isThreadLocalGV(g) == g.tls # NotThreadLocal

-----------------------------------------------------------------------------
(* declareGlobal *)

\* the foreseeable slip: no lookup of an existing global of that name
declareGlobal_NoLookup(mod, tgt, type, mangledName, isConstant, isThreadLocal, useDLLImport) ==
  LET new == NewGlobalVariable(mod, type, isConstant, "External", NoInit, mangledName,
                               IF isThreadLocal THEN tgt.threadModel ELSE NotThreadLocal)
  IN [module |-> new, gvar |-> Len(new), fatal |-> FALSE, error |-> FALSE]

\* declareGlobal: what it leaves of the module, the global it returns (an index
\* into the module, 0 when it does not return), and whether it reported an
\* error and called fatal()
declareGlobal(mod, tgt, type, mangledName, isConstant, isThreadLocal, useDLLImport) ==
  LET tl == IF tgt.arch \in {"wasm32", "wasm64", "avr"} THEN FALSE ELSE isThreadLocal
      existing == getGlobalVariable(mod, mangledName)
  IN IF existing # 0
       THEN IF \/ mod[existing].type # type
               \/ mod[existing].isConstant # isConstant
               \/ isThreadLocalGV(mod[existing]) # tl
              THEN [module |-> mod, gvar |-> 0, fatal |-> TRUE, error |-> TRUE]
              ELSE [module |-> mod, gvar |-> existing, fatal |-> FALSE, error |-> FALSE]
       ELSE LET tlsModel == IF tl
                              THEN (IF tgt.arch = "ppc" THEN "LocalExec" ELSE tgt.threadModel)
                              ELSE NotThreadLocal
                created == NewGlobalVariable(mod, type, isConstant, "External", NoInit,
                                             mangledName, tlsModel)
                n == Len(created)
                gv == IF useDLLImport /\ tgt.windows
                        THEN [created EXCEPT ![n].dllimport = TRUE]
                        ELSE created
            IN [module |-> gv, gvar |-> n, fatal |-> FALSE, error |-> FALSE]

\* the mangled names and IR types the registry model declares
MangledNames == {"_D1a", "_D1b"}

IRTypes == {<<"i32">>, <<"i64">>}

\* one call of declareGlobal by the code generator
DeclareGlobal ==
  /\ ~aborted
  /\ ops < MaxDeclOps
  /\ \E type \in IRTypes, name \in MangledNames, isConstant \in BOOLEAN,
        isThreadLocal \in BOOLEAN, useDLLImport \in BOOLEAN :
       LET r == declareGlobal(module, target, type, name, isConstant, isThreadLocal,
                              useDLLImport)
       IN /\ module' = r.module
          /\ aborted' = r.fatal
          /\ errors' = IF r.error THEN errors + 1 ELSE errors
          /\ last' = [op |-> "declareGlobal", type |-> type, name |-> name,
                      isConstant |-> isConstant, isThreadLocal |-> isThreadLocal,
                      existing |-> getGlobalVariable(module, name),
                      before |-> module, ret |-> r.gvar]
  /\ ops' = ops + 1
  /\ UNCHANGED <<target, foldVars, castVars, abiVars>>

InitCommon ==
  /\ module = <<>>
  /\ errors = 0
  /\ aborted = FALSE
  /\ gag = 0
  /\ gaggedErrors = 0
  /\ stringLiteralCache = <<>>
  /\ structLiteralCache = <<>>
  /\ inuse = <<>>
  /\ overflow = FALSE
  /\ values = <<>>
  /\ scopebb = <<>>
  /\ tf = <<>>
  /\ irFuncTys = <<>>
  /\ last = [op |-> "none"]
  /\ ops = 0

InitGlobals ==
  /\ target \in TargetSet
  /\ InitCommon

NextGlobals == DeclareGlobal

SpecGlobals == InitGlobals /\ [][NextGlobals]_vars

-----------------------------------------------------------------------------
(* C1 *)

\* the thread-locality declareGlobal compares and uses, after the targets
\* without TLS have dropped it
EffectiveThreadLocal(tgt, isThreadLocal) ==
  isThreadLocal /\ tgt.arch \notin {"wasm32", "wasm64", "avr"}

RedeclarationMatches ==
  /\ last.before[last.existing].type = last.type
  /\ last.before[last.existing].isConstant = last.isConstant
  /\ isThreadLocalGV(last.before[last.existing]) =
       EffectiveThreadLocal(target, last.isThreadLocal)

\* C1: a declareGlobal call for a mangled name the module already holds returns
\* the existing global and creates nothing when IR type, constant-ness and
\* effective thread-locality all match, and is a fatal error (module untouched)
\* when one of them differs; and no two globals of the module were created for
\* the same mangled name.
C1_DeclareGlobalInsertOrVerify ==
  /\ (last.op = "declareGlobal" /\ last.existing # 0) =>
       IF RedeclarationMatches
         THEN ~aborted /\ last.ret = last.existing /\ module = last.before
         ELSE aborted /\ last.ret = 0 /\ module = last.before /\ errors > 0
  /\ \A i, j \in 1..Len(module) : module[i].name = module[j].name => i = j

\* a matching redeclaration and a mismatching one have both happened
C1_Witness ==
  /\ last.op = "declareGlobal"
  /\ last.existing # 0
  /\ ~RedeclarationMatches
  /\ aborted
  /\ Len(module) = 2

C1_WitnessMatch ==
  /\ last.op = "declareGlobal"
  /\ last.existing # 0
  /\ RedeclarationMatches
  /\ ~aborted

-----------------------------------------------------------------------------
(* The front end's tree the constant folder is run on: a fixed, immutable set *)
(* of declarations and expressions, each named by its identity.              *)

\* D types met by the folder: the TY of the base type, const/immutable-ness,
\* the IR type DtoType gives (an IR type is the sequence of its tokens, a
\* pointer to T being "*" followed by T), the static array dimension
DTypes ==
  [int        |-> [ty |-> "Tint32",   const |-> FALSE, ll |-> <<"i32">>, dim |-> 0],
   float      |-> [ty |-> "Tfloat32", const |-> FALSE, ll |-> <<"float">>, dim |-> 0],
   charptr    |-> [ty |-> "Tpointer", const |-> FALSE, ll |-> <<"*", "i8">>, dim |-> 0],
   intptr     |-> [ty |-> "Tpointer", const |-> FALSE, ll |-> <<"*", "i32">>, dim |-> 0],
   string     |-> [ty |-> "Tarray",   const |-> FALSE, ll |-> <<"{", "i64", "*", "i8", "}">>, dim |-> 0],
   char3      |-> [ty |-> "Tsarray",  const |-> FALSE, ll |-> <<"[", "3", "i8">>, dim |-> 3],
   char2      |-> [ty |-> "Tsarray",  const |-> FALSE, ll |-> <<"[", "2", "i8">>, dim |-> 2],
   intarr     |-> [ty |-> "Tarray",   const |-> FALSE, ll |-> <<"{", "i64", "*", "i32", "}">>, dim |-> 0],
   cintarr    |-> [ty |-> "Tarray",   const |-> TRUE,  ll |-> <<"{", "i64", "*", "i32", "}">>, dim |-> 0],
   int2       |-> [ty |-> "Tsarray",  const |-> FALSE, ll |-> <<"[", "2", "i32">>, dim |-> 2],
   S          |-> [ty |-> "Tstruct",  const |-> FALSE, ll |-> <<"%S">>, dim |-> 0],
   Sptr       |-> [ty |-> "Tpointer", const |-> FALSE, ll |-> <<"*", "%S">>, dim |-> 0],
   C          |-> [ty |-> "Tclass",   const |-> FALSE, ll |-> <<"*", "%C">>, dim |-> 0],
   I          |-> [ty |-> "Tclass",   const |-> FALSE, ll |-> <<"*", "%I">>, dim |-> 0],
   dg         |-> [ty |-> "Tdelegate", const |-> FALSE, ll |-> <<"{", "*", "i8", "*", "void()", "}">>, dim |-> 0],
   fnptr      |-> [ty |-> "Tpointer", const |-> FALSE, ll |-> <<"*", "void()">>, dim |-> 0],
   TypeInfo   |-> [ty |-> "Tclass",   const |-> FALSE, ll |-> <<"*", "%TypeInfo">>, dim |-> 0],
   bool       |-> [ty |-> "Tbool",    const |-> FALSE, ll |-> <<"i1">>, dim |-> 0],
   byte       |-> [ty |-> "Tint8",    const |-> FALSE, ll |-> <<"i8">>, dim |-> 0],
   ubyte      |-> [ty |-> "Tuns8",    const |-> FALSE, ll |-> <<"i8">>, dim |-> 0],
   short      |-> [ty |-> "Tint16",   const |-> FALSE, ll |-> <<"i16">>, dim |-> 0],
   ushort     |-> [ty |-> "Tuns16",   const |-> FALSE, ll |-> <<"i16">>, dim |-> 0],
   uint       |-> [ty |-> "Tuns32",   const |-> FALSE, ll |-> <<"i32">>, dim |-> 0],
   long       |-> [ty |-> "Tint64",   const |-> FALSE, ll |-> <<"i64">>, dim |-> 0],
   ulong      |-> [ty |-> "Tuns64",   const |-> FALSE, ll |-> <<"i64">>, dim |-> 0],
   E          |-> [ty |-> "Tenum",    const |-> FALSE, ll |-> <<"i32">>, dim |-> 0],
   real       |-> [ty |-> "Tfloat80", const |-> FALSE, ll |-> <<"x86_fp80">>, dim |-> 0],
   double     |-> [ty |-> "Tfloat64", const |-> FALSE, ll |-> <<"double">>, dim |-> 0],
   cfloat     |-> [ty |-> "Tcomplex32", const |-> FALSE, ll |-> <<"{", "float", "float", "}">>, dim |-> 0],
   aa         |-> [ty |-> "Taarray",  const |-> FALSE, ll |-> <<"*", "i8">>, dim |-> 0],
   aa2        |-> [ty |-> "Taarray",  const |-> FALSE, ll |-> <<"*", "i8">>, dim |-> 0],
   null       |-> [ty |-> "Tnull",    const |-> FALSE, ll |-> <<"*", "i8">>, dim |-> 0],
   S2         |-> [ty |-> "Tstruct",  const |-> FALSE, ll |-> <<"%S2">>, dim |-> 0],
   S0         |-> [ty |-> "Tstruct",  const |-> FALSE, ll |-> <<"%S0">>, dim |-> 0],
   int4       |-> [ty |-> "Tvector",  const |-> FALSE, ll |-> <<"<", "4", "i32">>, dim |-> 4],
   float4     |-> [ty |-> "Tvector",  const |-> FALSE, ll |-> <<"<", "4", "float">>, dim |-> 4],
   int2v      |-> [ty |-> "Tvector",  const |-> FALSE, ll |-> <<"<", "2", "i32">>, dim |-> 2]]

DtoType(t) == DTypes[t].ll

\* Type::toBasetype: an enum is its base type
toBasetype(t) == IF DTypes[t].ty = "Tenum" THEN "int" ELSE t

\* DtoMemType: a bool is kept in memory as a byte
DtoMemType(t) == IF DtoType(t) = <<"i1">> THEN <<"i8">> ELSE DtoType(t)

\* IrTypeClass::getInterfaceIndex: where the class's layout holds the vtbl
\* pointer of the interface (the class C implements the interface I)
getInterfaceIndex(cls, it) == IF cls = "C" /\ it = "I" THEN 2 ELSE -1

\* Declarations: kind is var | symbol | typeinfo | func.  init names the
\* expression of an ExpInitializer ("" when there is no initializer).
Decls ==
  [c_ok      |-> [kind |-> "var", isConst |-> TRUE,  init |-> "i7",       isDataseg |-> TRUE,
                  needThis |-> FALSE, type |-> "int", irGlobal |-> TRUE],
   c_rec     |-> [kind |-> "var", isConst |-> TRUE,  init |-> "sl_rec",   isDataseg |-> TRUE,
                  needThis |-> FALSE, type |-> "S", irGlobal |-> TRUE],
   c_castbad |-> [kind |-> "var", isConst |-> TRUE,  init |-> "cast_bad", isDataseg |-> TRUE,
                  needThis |-> FALSE, type |-> "float", irGlobal |-> TRUE],
   c_noinit  |-> [kind |-> "var", isConst |-> TRUE,  init |-> "",         isDataseg |-> TRUE,
                  needThis |-> FALSE, type |-> "int", irGlobal |-> TRUE],
   c_fill    |-> [kind |-> "var", isConst |-> TRUE,  init |-> "i7",       isDataseg |-> TRUE,
                  needThis |-> FALSE, type |-> "int2", irGlobal |-> TRUE],
   c_wide    |-> [kind |-> "var", isConst |-> TRUE,  init |-> "s_m1",     isDataseg |-> TRUE,
                  needThis |-> FALSE, type |-> "long", irGlobal |-> TRUE],
   g_mut     |-> [kind |-> "var", isConst |-> FALSE, init |-> "i7",       isDataseg |-> TRUE,
                  needThis |-> FALSE, type |-> "int", irGlobal |-> TRUE],
   g_arr     |-> [kind |-> "var", isConst |-> FALSE, init |-> "",         isDataseg |-> TRUE,
                  needThis |-> FALSE, type |-> "int2", irGlobal |-> TRUE],
   g_str     |-> [kind |-> "var", isConst |-> FALSE, init |-> "",         isDataseg |-> TRUE,
                  needThis |-> FALSE, type |-> "string", irGlobal |-> TRUE],
   g_real    |-> [kind |-> "var", isConst |-> FALSE, init |-> "",         isDataseg |-> TRUE,
                  needThis |-> FALSE, type |-> "real", irGlobal |-> TRUE],
   local     |-> [kind |-> "var", isConst |-> FALSE, init |-> "",         isDataseg |-> FALSE,
                  needThis |-> FALSE, type |-> "int", irGlobal |-> FALSE],
   field     |-> [kind |-> "var", isConst |-> FALSE, init |-> "",         isDataseg |-> FALSE,
                  needThis |-> TRUE,  type |-> "int", irGlobal |-> FALSE],
   S_init    |-> [kind |-> "symbol", isConst |-> TRUE, init |-> "",       isDataseg |-> TRUE,
                  needThis |-> FALSE, type |-> "S", irGlobal |-> FALSE],
   ti_int    |-> [kind |-> "typeinfo", isConst |-> TRUE, init |-> "",     isDataseg |-> TRUE,
                  needThis |-> FALSE, type |-> "TypeInfo", irGlobal |-> FALSE],
   fn        |-> [kind |-> "func", isConst |-> FALSE, init |-> "",        isDataseg |-> FALSE,
                  needThis |-> FALSE, type |-> "fnptr", irGlobal |-> FALSE]]

\* an expression node; the fields a kind does not have are ""/<<>>/0
Node(op, type, e1, e2, elements, var, n) ==
  [op |-> op, type |-> type, e1 |-> e1, e2 |-> e2, elements |-> elements, var |-> var, n |-> n]

\* Expressions.  n is: the value of an IntegerExp, the offset of a SymOffExp;
\* a StringExp keeps its code units in elements; a CastExp its kind of
\* operand in var; a FuncExp the literal's kind in var.
Exps ==
  [i7         |-> Node("IntegerExp", "int", "", "", <<>>, "", 7),
   i_m1       |-> Node("IntegerExp", "int", "", "", <<>>, "", -1),
   s_m1       |-> Node("IntegerExp", "short", "", "", <<>>, "", -1),
   s_300      |-> Node("IntegerExp", "short", "", "", <<>>, "", 300),
   us_max     |-> Node("IntegerExp", "ushort", "", "", <<>>, "", 65535),
   b_min      |-> Node("IntegerExp", "byte", "", "", <<>>, "", -128),
   ub_200     |-> Node("IntegerExp", "ubyte", "", "", <<>>, "", 200),
   b_true     |-> Node("IntegerExp", "bool", "", "", <<>>, "", 1),
   r1         |-> Node("RealExp", "float", "", "", <<>>, "", 1),
   null_p     |-> Node("NullExp", "charptr", "", "", <<>>, "", 0),
   null_a     |-> Node("NullExp", "string", "", "", <<>>, "", 0),
   str_p      |-> Node("StringExp", "charptr", "", "", <<97, 98>>, "", 1),
   str_a      |-> Node("StringExp", "string",  "", "", <<97, 98>>, "", 1),
   str_b      |-> Node("StringExp", "string",  "", "", <<99>>, "", 1),
   str_s3     |-> Node("StringExp", "char3",   "", "", <<97, 98>>, "", 1),
   str_s2     |-> Node("StringExp", "char2",   "", "", <<97, 98>>, "", 1),
   sl_self    |-> Node("StructLiteralExp", "S", "", "", <<"i7", "addr_self">>, "", 0),
   addr_self  |-> Node("AddrExp", "Sptr", "sl_self", "", <<>>, "", 0),
   sl_plain   |-> Node("StructLiteralExp", "S", "", "", <<"i7", "str_a">>, "", 0),
   addr_plain |-> Node("AddrExp", "Sptr", "sl_plain", "", <<>>, "", 0),
   addr_plain2 |-> Node("AddrExp", "Sptr", "sl_plain", "", <<>>, "", 0),
   sl_static  |-> Node("StructLiteralExp", "S", "", "", <<>>, "useStaticInit", 0),
   sl_rec     |-> Node("StructLiteralExp", "S", "", "", <<"v_rec">>, "", 0),
   sl_nonconst |-> Node("StructLiteralExp", "S", "", "", <<"v_nonconst", "i7">>, "", 0),
   clsval     |-> Node("StructLiteralExp", "C", "", "", <<"i7", "cref_self">>, "", 0),
   cref       |-> Node("ClassReferenceExp", "C", "clsval", "", <<>>, "", 0),
   cref_self  |-> Node("ClassReferenceExp", "C", "clsval", "", <<>>, "", 0),
   cref_iface |-> Node("ClassReferenceExp", "I", "clsval", "", <<>>, "", 0),
   al_dyn_c   |-> Node("ArrayLiteralExp", "cintarr", "", "", <<"i7", "i7">>, "", 0),
   al_dyn_m   |-> Node("ArrayLiteralExp", "intarr",  "", "", <<"i7">>, "", 0),
   al_static  |-> Node("ArrayLiteralExp", "int2",    "", "", <<"i7", "i7">>, "", 0),
   al_ptr     |-> Node("ArrayLiteralExp", "intptr",  "", "", <<"i7">>, "", 0),
   v_ok       |-> Node("VarExp", "int", "", "", <<>>, "c_ok", 0),
   v_noinit   |-> Node("VarExp", "int", "", "", <<>>, "c_noinit", 0),
   v_nonconst |-> Node("VarExp", "int", "", "", <<>>, "g_mut", 0),
   v_rec      |-> Node("VarExp", "S", "", "", <<>>, "c_rec", 0),
   v_castbad  |-> Node("VarExp", "float", "", "", <<>>, "c_castbad", 0),
   v_syminit  |-> Node("VarExp", "S", "", "", <<>>, "S_init", 0),
   v_typeinfo |-> Node("VarExp", "TypeInfo", "", "", <<>>, "ti_int", 0),
   v_arr      |-> Node("VarExp", "int2", "", "", <<>>, "g_arr", 0),
   v_str      |-> Node("VarExp", "string", "", "", <<>>, "g_str", 0),
   v_local    |-> Node("VarExp", "int", "", "", <<>>, "local", 0),
   v_fill     |-> Node("VarExp", "int2", "", "", <<>>, "c_fill", 0),
   v_wide     |-> Node("VarExp", "long", "", "", <<>>, "c_wide", 0),
   cast_bad   |-> Node("CastExp", "float", "i7", "", <<>>, "", 0),
   cast_str   |-> Node("CastExp", "intarr", "str_a", "", <<>>, "", 0),
   cast_pp    |-> Node("CastExp", "intptr", "str_p", "", <<>>, "", 0),
   cast_var   |-> Node("CastExp", "charptr", "v_str", "", <<>>, "", 0),
   cast_local |-> Node("CastExp", "intptr", "v_local", "", <<>>, "", 0),
   cast_cls   |-> Node("CastExp", "I", "cref", "", <<>>, "", 0),
   symoff0    |-> Node("SymOffExp", "intptr", "", "", <<>>, "g_arr", 0),
   symoff8    |-> Node("SymOffExp", "intptr", "", "", <<>>, "g_arr", 8),
   symoff3    |-> Node("SymOffExp", "charptr", "", "", <<>>, "g_arr", 3),
   symoff_r10 |-> Node("SymOffExp", "charptr", "", "", <<>>, "g_real", 10),
   symoff_local |-> Node("SymOffExp", "intptr", "", "", <<>>, "local", 0),
   symoff_this  |-> Node("SymOffExp", "intptr", "", "", <<>>, "field", 0),
   symoff_fn  |-> Node("SymOffExp", "fnptr", "", "", <<>>, "fn", 0),
   addr_var   |-> Node("AddrExp", "intptr", "v_nonconst", "", <<>>, "", 0),
   addr_local |-> Node("AddrExp", "intptr", "v_local", "", <<>>, "", 0),
   idx        |-> Node("IndexExp", "int", "v_arr", "i7", <<>>, "", 0),
   addr_idx   |-> Node("AddrExp", "intptr", "idx", "", <<>>, "", 0),
   slice      |-> Node("SliceExp", "intarr", "v_arr", "", <<>>, "", 0),
   addr_slice |-> Node("AddrExp", "intptr", "slice", "", <<>>, "", 0),
   fn_lit     |-> Node("FuncExp", "fnptr", "", "", <<>>, "function", 0),
   dg_module  |-> Node("FuncExp", "dg", "", "", <<>>, "delegate@module", 0),
   dg_nested  |-> Node("FuncExp", "dg", "", "", <<>>, "delegate@nested", 0),
   add_p      |-> Node("AddExp", "charptr", "str_p", "i7", <<>>, "", 0),
   add_i      |-> Node("AddExp", "int", "i7", "i7", <<>>, "", 0),
   min_p      |-> Node("MinExp", "charptr", "str_p", "i7", <<>>, "", 0),
   call       |-> Node("CallExp", "int", "", "", <<>>, "", 0)]

ExpIds == DOMAIN Exps

\* the expressions the code generator asks the folder for
Roots == ExpIds \ {"idx", "slice", "clsval"}

-----------------------------------------------------------------------------
(* IR constants.  k is the kind; a constant is never compared as a whole,    *)
(* only through its kind and the accessors below.                            *)

\* a number as a token of an IR type
NumStr(n) == <<"0", "1", "2", "3", "4", "5", "6", "7", "8", "9">>[n + 1]

nullptr == [k |-> "nullptr"]

isNull(c) == c.k = "nullptr"

CUndef(ty) == [k |-> "undef", ty |-> ty]

\* a ConstantInt: its type and its bytes, least significant first (an i1 is
\* one byte 0 or 1)
CInt(ty, v) == [k |-> "int", ty |-> ty, v |-> v]

CFP(ty, v) == [k |-> "fp", ty |-> ty, v |-> v]

CNullValue(ty) == [k |-> "zero", ty |-> ty]

CArray(ty, elems) == [k |-> "array", ty |-> ty, elems |-> elems]

CStruct(ty, fields) == [k |-> "struct", ty |-> ty, fields |-> fields]

\* the address of the module's i-th global variable
CGlobal(mod, i) == [k |-> "global", ty |-> <<"*">> \o mod[i].type, g |-> i]

CFunction(name) == [k |-> "function", ty |-> <<"*", "void()">>, name |-> name]

\* the type of the address of an element: of an array's element when the
\* pointee is an array, of some field or byte otherwise
ElemPtrType(ty) ==
  IF Len(ty) >= 3 /\ ty[1] = "*" /\ ty[2] = "["
    THEN <<"*">> \o SubSeq(ty, 4, Len(ty))
    ELSE <<"*", "elem">> \o ty

\* DtoGEP(base, 0, i): the address of the i-th element or field
DtoGEP(base, i) == [k |-> "gep", ty |-> ElemPtrType(base.ty), base |-> base, idxs |-> <<0, i>>]

\* ConstantExpr::getGetElementPtr(base, i): the address i elements on
DtoGEP1(base, i) == [k |-> "gep", ty |-> base.ty, base |-> base, idxs |-> <<i>>]

\* DtoBitCast / ConstantExpr::getBitCast: nothing to do when the type is the same
DtoBitCast(c, ty) ==
  IF c.ty = ty THEN c ELSE [k |-> "bitcast", ty |-> ty, base |-> c]

DtoConstSlice(len, ptr) ==
  [k |-> "slice", ty |-> <<"{", "i64">> \o ptr.ty \o <<"}">>, len |-> len, ptr |-> ptr]

\* the global variable a constant address is based on, 0 when it has none
RECURSIVE BaseGlobal(_)
BaseGlobal(c) ==
  CASE c.k = "global" -> c.g
    [] c.k \in {"gep", "bitcast"} -> BaseGlobal(c.base)
    [] c.k = "slice" -> BaseGlobal(c.ptr)
    [] OTHER -> 0

-----------------------------------------------------------------------------
(* The compiler's state as the folder threads it through its calls.  diags   *)
(* collects the kinds of diagnostic raised (printed or gagged) by the        *)
(* running entry-point call.                                                 *)

FoldState ==
  [module |-> module, errors |-> errors, aborted |-> aborted, gag |-> gag,
   gaggedErrors |-> gaggedErrors, stringLiteralCache |-> stringLiteralCache,
   structLiteralCache |-> structLiteralCache, inuse |-> inuse, overflow |-> overflow,
   diags |-> {}, created |-> <<>>]

\* after fatal() the process is gone: no later statement has an effect
Live(st, new) == IF st.aborted THEN st ELSE new

\* error(): counted and printed, or counted as gagged and suppressed
error(st, msg) ==
  Live(st, IF st.gag > 0
             THEN [st EXCEPT !.gaggedErrors = @ + 1, !.diags = @ \cup {msg}]
             ELSE [st EXCEPT !.errors = @ + 1, !.diags = @ \cup {msg}])

fatal(st) == [st EXCEPT !.aborted = TRUE]

\* Global::startGagging: returns the gagged error count to restore
startGagging(st) == Live(st, [st EXCEPT !.gag = @ + 1])

\* Global::endGagging(oldGagged): whether an error was gagged since
anyGaggedSince(st, oldGagged) == st.gaggedErrors # oldGagged

endGagging(st, oldGagged) ==
  Live(st, [st EXCEPT !.gag = @ - 1, !.gaggedErrors = oldGagged])

Extend(f, key, v) == [x \in DOMAIN f \cup {key} |-> IF x = key THEN v ELSE f[x]]

\* a new global variable, unless the process is gone; `lit` names the literal
\* it was created for
AddGlobal(st, type, isConstant, linkage, init, name, lit) ==
  Live(st, [st EXCEPT
    !.module = Append(st.module,
                 [NewGlobalVariable(<<>>, type, isConstant, linkage, init, name, NotThreadLocal)[1]
                    EXCEPT !.origin = lit,
                           !.sym = <<name, Cardinality({i \in 1..Len(st.module) :
                                                         st.module[i].name = name})>>]),
    !.created = Append(@, lit)])

\* buildStringLiteralConstant: the code units, zero-terminated on request
buildStringLiteralConstant(e, zeroTerm) ==
  LET units == Exps[e].elements
      sz == Exps[e].n
      ct == IF sz = 1 THEN "i8" ELSE IF sz = 2 THEN "i16" ELSE "i32"
      vals == IF zeroTerm THEN Append(units, 0) ELSE units
  IN CArray(<<"[", NumStr(Len(vals)), ct>>, vals)

\* IRState::getCachedStringLiteral: one zero-terminated private constant global
\* per string content and code unit size
StringKey(e) == <<Exps[e].n, Exps[e].elements>>

getCachedStringLiteral(st, e) ==
  IF StringKey(e) \in DOMAIN st.stringLiteralCache
    THEN [st |-> st, gvar |-> st.stringLiteralCache[StringKey(e)]]
    ELSE Bind(buildStringLiteralConstant(e, TRUE), LAMBDA init :
         Bind(AddGlobal(st, init.ty, TRUE, "Private", init, ".str", e), LAMBDA s1 :
           [st |-> Live(st, [s1 EXCEPT !.stringLiteralCache =
                                         Extend(@, StringKey(e), Len(s1.module))]),
            gvar |-> Len(s1.module)]))

\* IRState::getStructLiteralConstant / setStructLiteralConstant
getStructLiteralConstant(st, se) ==
  IF se \in DOMAIN st.structLiteralCache THEN st.structLiteralCache[se] ELSE nullptr

setStructLiteralConstant(st, se, c) ==
  Live(st, [st EXCEPT !.structLiteralCache = Extend(@, se, c)])

\* IRState::setGlobalVarInitializer: the global gets its initializer; the
\* constant returned is the global's address
setGlobalVarInitializer(st, g, init) ==
  Live(st, [st EXCEPT !.module[g].init = init])

-----------------------------------------------------------------------------
(* ToConstElemVisitor.  Every visit returns the state it leaves and the      *)
(* visitor's `result` (nullptr when it set none).  d is the nesting depth of *)
(* toConstElem calls.                                                        *)

Ret(st, c) == [st |-> st, c |-> c]

\* getTypeStoreSize of an IR type
RECURSIVE TypeStoreSize(_)
RECURSIVE TypeAllocSize(_)
RECURSIVE FieldsSize(_)
TypeStoreSize(ty) ==
  CASE ty[1] \in {"[", "<"} ->
         (CHOOSE n \in 0..9 : NumStr(n) = ty[2]) * TypeAllocSize(SubSeq(ty, 3, Len(ty)))
    [] ty[1] = "{" -> FieldsSize(Tail(ty))
    [] ty[1] = "*" -> 8
    [] ty[1] = "x86_fp80" -> 10
    [] ty[1] \in {"i1", "i8"} -> 1
    [] ty[1] = "i16" -> 2
    [] ty[1] \in {"i32", "float"} -> 4
    [] OTHER -> 8

\* getTypeAllocSize of an IR type: the store size rounded up to the type's
\* alignment; of the types here only the 80-bit float has padding after it
TypeAllocSize(ty) ==
  CASE ty[1] = "x86_fp80" -> 16
    [] OTHER -> TypeStoreSize(ty)

\* the fields of a literal struct type, laid out one after the other (every
\* field here is as aligned as the one before it); a pointer field takes the
\* token of its pointee with it
FieldsSize(fields) ==
  IF fields = <<>> \/ Head(fields) = "}" THEN 0
  ELSE IF Head(fields) = "*" THEN 8 + FieldsSize(Tail(Tail(fields)))
  ELSE TypeStoreSize(<<Head(fields)>>) + FieldsSize(Tail(fields))

\* ToConstElemVisitor::fatalError: result = nullptr, fatal() unless gagged
fatalError(st) == Live(st, IF st.gag = 0 THEN fatal(st) ELSE st)

\* DtoResolveVariable: a data-segment variable gets its global declared (by
\* IrGlobal::getValue, through declareGlobal) unless it is resolved already
DtoResolveVariable(st, v) ==
  IF ~Decls[v].isDataseg \/ getGlobalVariable(st.module, v) # 0
    THEN st
    ELSE Bind(declareGlobal(st.module, target, DtoType(Decls[v].type), v,
                            Decls[v].isConst, FALSE, FALSE), LAMBDA r :
           Live(st, [st EXCEPT !.module = r.module, !.created = Append(@, v)]))

\* the address of the global a resolved variable lives in
IrGlobalValue(st, v) == CGlobal(st.module, getGlobalVariable(st.module, v))

\* DtoConstSymbolAddress
DtoConstSymbolAddress(st, v) ==
  LET dcl == Decls[v]
  IN IF dcl.needThis
       THEN Ret(Live(st, fatal(error(st, "need this"))), nullptr)
       ELSE IF dcl.kind = "func"
         THEN Ret(st, CFunction(v))
         ELSE IF ~dcl.isDataseg
           THEN Bind(error(st, "non-global address"), LAMBDA s1 :
                  Ret(Live(s1, IF s1.gag = 0 THEN fatal(s1) ELSE s1), nullptr))
           ELSE Bind(DtoResolveVariable(st, v), LAMBDA s1 : Ret(s1, IrGlobalValue(s1, v)))

RECURSIVE toConstElemR(_, _, _), process(_, _, _), FoldElements(_, _, _, _, _),
          visitVarExp(_, _, _), visitCastExp(_, _, _), visitAddrExp(_, _, _),
          visitArrayLiteralExp(_, _, _), visitStructLiteralExp(_, _, _),
          visitClassReferenceExp(_, _, _), visitPtrArith(_, _, _),
          DtoConstInitializer(_, _, _, _), DtoConstExpInit(_, _, _, _),
          visitAddrOfStructLiteral(_, _, _), visitAddrOfStructLiteral_RegisterLate(_, _, _),
          visitArrayLiteralExp_NoStorage(_, _, _)

\* toConstElem on each of elems[i..], in order: the state left and the constants
FoldElements(elems, i, st, d, acc) ==
  IF i > Len(elems)
    THEN [st |-> st, cs |-> acc]
    ELSE Bind(toConstElemR(elems[i], st, d), LAMBDA r :
           FoldElements(elems, i + 1, r.st, d, Append(acc, r.c)))

\* visit(Expression): not a constant
visitExpression(e, st) == Ret(fatalError(error(st, "is not a constant")), nullptr)

\* LLConstantInt::get(t, n, isSigned): the low bytes of n in two's complement
\* (an i1 keeps the low bit)
IntegerBits(n, t) ==
  IF t = <<"i1">> THEN <<n % 2>>
  ELSE [k \in 1..TypeStoreSize(t) |->
          IF k <= 4 THEN (n \div 256 ^ (k - 1)) % 256 ELSE IF n < 0 THEN 255 ELSE 0]

visitIntegerExp(e, st) ==
  LET t == DtoType(Exps[e].type)
  IN IF t[1] = "*"
       THEN Ret(st, [k |-> "inttoptr", ty |-> t,
                     base |-> CInt(<<"i64">>, IntegerBits(Exps[e].n, <<"i64">>))])
       ELSE Ret(st, CInt(t, IntegerBits(Exps[e].n, t)))

visitNullExp(e, st) == Ret(st, CNullValue(DtoType(Exps[e].type)))

\* the slip: every fold of a string literal makes its own global
visitStringExp_Uncached(e, st) ==
  LET t == DTypes[Exps[e].type]
  IN IF t.ty = "Tsarray"
       THEN Ret(st, buildStringLiteralConstant(e, t.dim = Len(Exps[e].elements) + 1))
       ELSE Bind(buildStringLiteralConstant(e, TRUE), LAMBDA init :
            Bind(AddGlobal(st, init.ty, TRUE, "Private", init, ".str", e), LAMBDA s1 :
            Bind(DtoGEP(CGlobal(s1.module, Len(s1.module)), 0), LAMBDA arrptr :
              IF t.ty = "Tpointer"
                THEN Ret(s1, DtoBitCast(arrptr, t.ll))
                ELSE Ret(s1, DtoConstSlice(Len(Exps[e].elements), arrptr)))))

visitStringExp(e, st) ==
  LET t == DTypes[Exps[e].type]
  IN IF t.ty = "Tsarray"
       THEN Ret(st, buildStringLiteralConstant(e, t.dim = Len(Exps[e].elements) + 1))
       ELSE Bind(getCachedStringLiteral(st, e), LAMBDA r :
            Bind(DtoGEP(CGlobal(r.st.module, r.gvar), 0), LAMBDA arrptr :
              IF t.ty = "Tpointer"
                THEN Ret(r.st, DtoBitCast(arrptr, t.ll))
                ELSE Ret(r.st, DtoConstSlice(Len(Exps[e].elements), arrptr))))

\* the slip: a failed variable reference ends the compilation like the other
\* failures do
VarExpFailure_Fatal(st, msg) == Ret(fatalError(error(st, msg)), nullptr)

\* visit(VarExp)'s two failures: the error is reported, result = nullptr
VarExpFailure(st, msg) == Ret(error(st, msg), nullptr)

InUse(st, v) == IF v \in DOMAIN st.inuse THEN st.inuse[v] ELSE 0

\* the slip: the counter is not taken back after the initializer's fold
visitVarExp_KeepInUse(e, st, d) ==
  LET v == Exps[e].var
      dcl == Decls[v]
  IN IF dcl.kind = "symbol" /\ DTypes[dcl.type].ty = "Tstruct"
       THEN Ret(st, CStruct(DtoType(dcl.type), <<>>))
       ELSE IF dcl.kind = "typeinfo"
         THEN Ret(st, DtoBitCast(CFunction(v), DtoType(Exps[e].type)))
         ELSE IF dcl.kind = "var" /\ dcl.isConst /\ dcl.init # ""
           THEN IF InUse(st, v) > 0
                  THEN VarExpFailure(st, "recursive reference")
                  ELSE DtoConstInitializer(
                         Live(st, [st EXCEPT !.inuse = Extend(@, v, InUse(st, v) + 1)]),
                         Exps[e].type, dcl.init, d)
           ELSE VarExpFailure(st, "non-constant expression")

visitVarExp(e, st, d) ==
  LET v == Exps[e].var
      dcl == Decls[v]
  IN IF dcl.kind = "symbol" /\ DTypes[dcl.type].ty = "Tstruct"
       THEN Ret(st, CStruct(DtoType(dcl.type), <<>>))
       ELSE IF dcl.kind = "typeinfo"
         THEN Ret(st, DtoBitCast(CFunction(v), DtoType(Exps[e].type)))
         ELSE IF dcl.kind = "var" /\ dcl.isConst /\ dcl.init # ""
           THEN IF InUse(st, v) > 0
                  THEN VarExpFailure(st, "recursive reference")
                  ELSE Bind(DtoConstInitializer(
                              Live(st, [st EXCEPT !.inuse = Extend(@, v, InUse(st, v) + 1)]),
                              Exps[e].type, dcl.init, d), LAMBDA r :
                         Ret(Live(r.st, [r.st EXCEPT !.inuse = Extend(@, v, @[v] - 1)]), r.c))
           ELSE VarExpFailure(st, "non-constant expression")

\* DtoConstInitializer of an ExpInitializer
DtoConstInitializer(st, type, init, d) == DtoConstExpInit(st, type, init, d)

\* llvm::Constant::isNullValue
isNullValue(c) ==
  \/ c.k = "zero"
  \/ c.k = "int" /\ \A k \in DOMAIN c.v : c.v[k] = 0
  \/ c.k = "fp" /\ c.v = 0

isIntegerTy(ty) == ty[1] \in {"i1", "i8", "i16", "i32", "i64"}

\* llvm::Constant::getNullValue
getNullValue(ty) ==
  IF isIntegerTy(ty) THEN CInt(ty, Fill(TypeStoreSize(ty), 0)) ELSE CNullValue(ty)

\* llvm::ConstantExpr::getZExt / getZExtOrBitCast of a ConstantInt: the high
\* bytes are zero
getZExtOrBitCast(c, ty) == CInt(ty, c.v \o Fill(TypeStoreSize(ty) - Len(c.v), 0))

\* the constant array built from a scalar, innermost dimension first
RECURSIVE ArrayFromScalar(_, _)
ArrayFromScalar(val, ty) ==
  IF ty[1] # "[" \/ ty = val.ty THEN val
  ELSE Bind(ArrayFromScalar(val, SubSeq(ty, 3, Len(ty))), LAMBDA inner :
         CArray(<<"[", ty[2]>> \o inner.ty,
                Fill(CHOOSE n \in 0..9 : NumStr(n) = ty[2], inner)))

\* llvm::ConstantVector::getSplat
getSplat(n, val) == [k |-> "vector", ty |-> <<"<", NumStr(n)>> \o val.ty, elems |-> Fill(n, val)]

\* the fix-up of an unresolved implicit integer conversion; the assertion
\* stops the compiler when the target is not the wider type
FixUpInteger(st, val, targetLLType) ==
  IF TypeStoreSize(targetLLType) > TypeStoreSize(val.ty)
    THEN Ret(st, getZExtOrBitCast(val, targetLLType))
    ELSE Ret(Live(st, [st EXCEPT !.aborted = TRUE, !.diags = @ \cup {"assert"}]), nullptr)

\* DtoConstExpInit: the folded expression, fitted to the target's IR type
DtoConstExpInit(st, targetType, exp, d) ==
  Bind(toConstElemR(exp, st, d + 1), LAMBDA r :
    LET baseTargetType == toBasetype(targetType)
        targetLLType == DtoMemType(baseTargetType)
    IN IF isNull(r.c) THEN r
       ELSE IF isNullValue(r.c) THEN Ret(r.st, getNullValue(targetLLType))
       ELSE Bind(IF r.c.ty = <<"i1">> THEN getZExtOrBitCast(r.c, <<"i8">>) ELSE r.c,
                 LAMBDA val :
              IF val.ty = targetLLType THEN Ret(r.st, val)
              ELSE IF DTypes[baseTargetType].ty = "Tsarray"
                THEN Ret(r.st, ArrayFromScalar(val, targetLLType))
              ELSE IF DTypes[baseTargetType].ty = "Tvector"
                THEN Ret(r.st, getSplat(DTypes[baseTargetType].dim, val))
              ELSE IF isIntegerTy(val.ty) /\ isIntegerTy(targetLLType)
                THEN FixUpInteger(r.st, val, targetLLType)
              ELSE Ret(r.st, val)))

\* visit(AddExp) / visit(MinExp): pointer plus or minus a constant
visitPtrArith(e, st, d) ==
  LET x == Exps[e]
  IN IF DTypes[Exps[x.e1].type].ty = "Tpointer" /\ DTypes[Exps[x.e2].type].ty = "Tint32"
       THEN Bind(toConstElemR(x.e1, st, d + 1), LAMBDA r :
              Ret(r.st, DtoGEP1(r.c, IF x.op = "MinExp" THEN 0 - Exps[x.e2].n
                                                         ELSE Exps[x.e2].n)))
       ELSE visitExpression(e, st)

\* Lerr of visit(CastExp)
CastExpLerr(st) == Ret(fatalError(error(st, "cannot cast")), nullptr)

visitCastExp(e, st, d) ==
  LET x == Exps[e]
      tb == DTypes[x.type]
      e1 == Exps[x.e1]
  IN IF e1.op = "StringExp" /\ tb.ty = "Tarray"
       THEN Ret(error(st, "ct cast of string"), nullptr)
       ELSE IF tb.ty = "Tpointer" /\ DTypes[e1.type].ty = "Tpointer"
         THEN Bind(toConstElemR(x.e1, st, d + 1), LAMBDA r :
                Ret(r.st, DtoBitCast(r.c, tb.ll)))
         ELSE IF tb.ty = "Tpointer" /\ e1.op = "VarExp"
           THEN Bind(DtoResolveVariable(st, e1.var), LAMBDA s1 :
                  IF ~Decls[e1.var].irGlobal \/ getGlobalVariable(s1.module, e1.var) = 0
                    THEN CastExpLerr(s1)
                    ELSE Bind(IrGlobalValue(s1, e1.var), LAMBDA value :
                           Ret(s1, DtoBitCast(
                                     IF DTypes[Decls[e1.var].type].ty \in {"Tarray", "Tdelegate"}
                                       THEN DtoGEP(value, 1) ELSE value, tb.ll))))
           ELSE IF tb.ty = "Tclass" /\ DTypes[e1.type].ty = "Tclass"
                   /\ e1.op = "ClassReferenceExp"
             THEN Bind(toConstElemR(x.e1, st, d + 1), LAMBDA r :
                    Ret(r.st, DtoBitCast(IF x.type = "I"
                                           THEN DtoGEP(r.c, getInterfaceIndex("C", "I"))
                                           ELSE r.c, tb.ll)))
             ELSE CastExpLerr(st)

visitSymOffExp(e, st) ==
  LET x == Exps[e]
  IN Bind(DtoConstSymbolAddress(st, x.var), LAMBDA b :
       IF isNull(b.c)
         THEN Ret(b.st, nullptr)
         ELSE Bind(TypeStoreSize(Tail(b.c.ty)), LAMBDA elemSize :
              Bind(IF x.n = 0 THEN b.c
                   ELSE IF x.n % elemSize = 0
                     THEN DtoGEP1(b.c, x.n \div elemSize)
                     ELSE DtoGEP1(DtoBitCast(b.c, <<"*", "i8">>), x.n), LAMBDA result :
                Ret(b.st, DtoBitCast(result, DtoType(x.type))))))

\* the initializer is folded and set, the literal registered for good
FinishStructLiteral(s2, se, g, d) ==
  Bind(toConstElemR(se, s2, d + 1), LAMBDA r :
  Bind(setGlobalVarInitializer(r.st, g, r.c), LAMBDA s3 :
    Ret(setStructLiteralConstant(s3, se, CGlobal(s3.module, g)), CGlobal(s3.module, g))))

\* the slip: the literal is registered only once its initializer is folded
visitAddrOfStructLiteral_RegisterLate(e, st, d) ==
  LET se == Exps[e].e1
  IN Bind(getStructLiteralConstant(st, se), LAMBDA cached :
       IF ~isNull(cached)
         THEN Ret(st, cached)
         ELSE Bind(AddGlobal(st, DtoType(Exps[se].type), FALSE, "Internal", NoInit,
                             ".structliteral", se), LAMBDA s1 :
                FinishStructLiteral(s1, se, Len(s1.module), d)))

\* visit(AddrExp) of a struct literal
visitAddrOfStructLiteral(e, st, d) ==
  LET se == Exps[e].e1
  IN Bind(getStructLiteralConstant(st, se), LAMBDA cached :
       IF ~isNull(cached)
         THEN Ret(st, cached)
         ELSE Bind(AddGlobal(st, DtoType(Exps[se].type), FALSE, "Internal", NoInit,
                             ".structliteral", se), LAMBDA s1 :
                FinishStructLiteral(
                  setStructLiteralConstant(s1, se, CGlobal(s1.module, Len(s1.module))),
                  se, Len(s1.module), d)))

visitAddrExp(e, st, d) ==
  LET x == Exps[e]
      e1 == Exps[x.e1]
  IN CASE e1.op = "VarExp" ->
            Bind(DtoConstSymbolAddress(st, e1.var), LAMBDA r :
              Ret(r.st, IF isNull(r.c) THEN nullptr ELSE DtoBitCast(r.c, DtoType(x.type))))
       [] e1.op = "IndexExp" ->
            Bind(toConstElemR(e1.e2, DtoResolveVariable(st, Exps[e1.e1].var), d + 1), LAMBDA r :
            Bind(DtoBitCast(IrGlobalValue(r.st, Exps[e1.e1].var),
                            <<"*">> \o DtoType(Exps[e1.e1].type)), LAMBDA val :
              Ret(r.st, DtoBitCast([k |-> "gep", ty |-> ElemPtrType(val.ty), base |-> val,
                                    idxs |-> <<0, r.c.v>>], DtoType(x.type)))))
       [] e1.op = "StructLiteralExp" -> visitAddrOfStructLiteral(e, st, d)
       [] OTHER -> visitExpression(e, st)

visitFuncExp(e, st) ==
  IF Exps[e].var = "delegate@nested"
    THEN Ret(fatalError(error(st, "nested delegate")), nullptr)
    ELSE IF Exps[e].var = "function"
      THEN Ret(st, CFunction(e))
      ELSE Ret(st, CStruct(<<"{", "*", "i8", "*", "void()", "}">>,
                           <<CNullValue(<<"*", "i8">>), CFunction(e)>>))

\* the IR array type of an array literal's elements
ArrayLiteralType(e) == <<"[", NumStr(Len(Exps[e].elements)), "i32">>

\* the slip: a dynamic array literal is given no backing global
visitArrayLiteralExp_NoStorage(e, st, d) ==
  Bind(FoldElements(Exps[e].elements, 1, st, d + 1, <<>>), LAMBDA r :
    Ret(r.st, CArray(ArrayLiteralType(e), r.cs)))

visitArrayLiteralExp(e, st, d) ==
  LET x == Exps[e]
      bt == DTypes[x.type]
  IN \* arrayLiteralToConst: the elements, each folded by toConstElem
     Bind(FoldElements(x.elements, 1, st, d + 1, <<>>), LAMBDA r :
     Bind(CArray(ArrayLiteralType(e), r.cs), LAMBDA initval :
       IF bt.ty = "Tsarray"
         THEN Ret(r.st, initval)
         ELSE Bind(AddGlobal(r.st, initval.ty, bt.const, "Internal", initval,
                             ".dynarrayStorage", e), LAMBDA s1 :
              Bind(DtoBitCast(CGlobal(s1.module, Len(s1.module)),
                              <<"*">> \o ArrayLiteralType(e)), LAMBDA store :
                IF bt.ty = "Tpointer"
                  THEN Ret(s1, store)
                  ELSE Ret(s1, DtoConstSlice(Len(x.elements), DtoGEP(store, 0)))))))

visitStructLiteralExp(e, st, d) ==
  LET x == Exps[e]
  IN IF x.var = "useStaticInit"
       THEN Ret(st, CStruct(DtoType(x.type), <<>>))
       ELSE Bind(FoldElements(x.elements, 1, st, d + 1, <<>>), LAMBDA r :
              Ret(r.st, CStruct(DtoType(x.type), r.cs)))

\* the class literal's global: the cached one, or a new one registered before
\* its fields are folded
ClassReferenceGlobal(value, st, d) ==
  Bind(getStructLiteralConstant(st, value), LAMBDA cached :
    IF ~isNull(cached)
      THEN Ret(st, cached)
      ELSE Bind(AddGlobal(st, <<"%C">>, FALSE, "Internal", NoInit, ".classref", value),
                LAMBDA s1 :
           Bind(FoldElements(Exps[value].elements, 1,
                             setStructLiteralConstant(s1, value,
                                                      CGlobal(s1.module, Len(s1.module))),
                             d + 1, <<>>), LAMBDA f :
           Bind(setGlobalVarInitializer(f.st, Len(s1.module), CStruct(<<"%C">>, f.cs)),
                LAMBDA s3 :
             Ret(setStructLiteralConstant(s3, value, CGlobal(s3.module, Len(s1.module))),
                 CGlobal(s3.module, Len(s1.module)))))))

visitClassReferenceExp(e, st, d) ==
  LET x == Exps[e]
  IN Bind(ClassReferenceGlobal(x.e1, st, d), LAMBDA r :
       Ret(r.st, DtoBitCast(IF x.type = "I" THEN DtoGEP(r.c, getInterfaceIndex("C", "I")) ELSE r.c,
                            DtoType(x.type))))

\* ToConstElemVisitor::process: the dispatch on the expression's kind
process(e, st, d) ==
  LET op == Exps[e].op
  IN CASE op = "VarExp" -> visitVarExp(e, st, d)
       [] op = "IntegerExp" -> visitIntegerExp(e, st)
       [] op = "RealExp" -> Ret(st, CFP(DtoType(Exps[e].type), Exps[e].n))
       [] op = "NullExp" -> visitNullExp(e, st)
       [] op = "StringExp" -> visitStringExp(e, st)
       [] op \in {"AddExp", "MinExp"} -> visitPtrArith(e, st, d)
       [] op = "CastExp" -> visitCastExp(e, st, d)
       [] op = "SymOffExp" -> visitSymOffExp(e, st)
       [] op = "AddrExp" -> visitAddrExp(e, st, d)
       [] op = "FuncExp" -> visitFuncExp(e, st)
       [] op = "ArrayLiteralExp" -> visitArrayLiteralExp(e, st, d)
       [] op = "StructLiteralExp" -> visitStructLiteralExp(e, st, d)
       [] op = "ClassReferenceExp" -> visitClassReferenceExp(e, st, d)
       [] OTHER -> visitExpression(e, st)

\* the slip: what the visitor left is returned as it is
NeverNull_AsLeft(e, r) == r

\* the undef constant toConstElem returns in place of null
NeverNull(e, r) == Ret(r.st, IF isNull(r.c) THEN CUndef(DtoType(Exps[e].type)) ELSE r.c)

\* toConstElem: never null, an undef of the expression's type instead.  A
\* nesting the native stack cannot hold kills the process.
toConstElemR(e, st, d) ==
  IF st.aborted
    THEN Ret(st, CUndef(DtoType(Exps[e].type)))
    ELSE IF d > MaxDepth
      THEN Ret([st EXCEPT !.overflow = TRUE, !.aborted = TRUE], CUndef(DtoType(Exps[e].type)))
      ELSE Bind(process(e, st, d), LAMBDA r : NeverNull(e, r))

\* the slip: the failure path returns without endGagging
tryToConstElemR_LeakOnFailure(e, st) ==
  Bind(process(e, startGagging(st), 0), LAMBDA r :
    IF anyGaggedSince(r.st, st.gaggedErrors)
      THEN Ret(r.st, nullptr)
      ELSE Ret(endGagging(r.st, st.gaggedErrors), r.c))

\* tryToConstElem: the fold under gagging; null when an error was gagged
tryToConstElemR(e, st) ==
  Bind(process(e, startGagging(st), 0), LAMBDA r :
    Ret(endGagging(r.st, st.gaggedErrors),
        IF anyGaggedSince(r.st, st.gaggedErrors) THEN nullptr ELSE r.c))

-----------------------------------------------------------------------------
(* The folder model: the code generator asks for constants, one expression  *)
(* at a time, through either entry point, possibly from a context that gags *)
(* diagnostics already.                                                     *)

\* what a call left behind, as the next state
Leaves(st) ==
  /\ module' = st.module
  /\ errors' = st.errors
  /\ aborted' = st.aborted
  /\ gag' = st.gag
  /\ gaggedErrors' = st.gaggedErrors
  /\ stringLiteralCache' = st.stringLiteralCache
  /\ structLiteralCache' = st.structLiteralCache
  /\ inuse' = st.inuse
  /\ overflow' = st.overflow

\* what the call is remembered by (toConstElem's also by ce, what its visitor
\* left): ret is the constant returned (nullptr for
\* tryToConstElem's failure signal), returned is FALSE when the process ended
\* inside the call
Call(op, e, r) ==
  [op |-> op, e |-> e, gagBefore |-> gag, gaggedBefore |-> gaggedErrors,
   nBefore |-> Len(module), cachedBefore |-> DOMAIN structLiteralCache,
   stringsBefore |-> DOMAIN stringLiteralCache, errorsBefore |-> errors,
   returned |-> ~r.st.aborted, ret |-> r.c, diags |-> r.st.diags,
   created |-> r.st.created, inuseBefore |-> inuse]

ToConstElem ==
  /\ ~aborted
  /\ ops < MaxFoldOps
  /\ \E e \in Roots :
       Bind(toConstElemR(e, FoldState, 0), LAMBDA r :
         /\ Leaves(r.st)
         /\ last' = ("ce" :> process(e, FoldState, 0).c) @@ Call("toConstElem", e, r))
  /\ ops' = ops + 1
  /\ UNCHANGED <<target, castVars, abiVars>>

TryToConstElem ==
  /\ ~aborted
  /\ ops < MaxFoldOps
  /\ \E e \in Roots :
       Bind(tryToConstElemR(e, FoldState), LAMBDA r :
         Leaves(r.st) /\ last' = Call("tryToConstElem", e, r))
  /\ ops' = ops + 1
  /\ UNCHANGED <<target, castVars, abiVars>>

InitFold ==
  /\ target = [arch |-> "x86", windows |-> FALSE, threadModel |-> clThreadModelDefault]
  /\ module = <<>>
  /\ errors = 0
  /\ aborted = FALSE
  /\ gag \in {0, 1}
  /\ gaggedErrors = 0
  /\ stringLiteralCache = <<>>
  /\ structLiteralCache = <<>>
  /\ inuse = <<>>
  /\ overflow = FALSE
  /\ values = <<>>
  /\ scopebb = <<>>
  /\ tf = <<>>
  /\ irFuncTys = <<>>
  /\ last = [op |-> "none"]
  /\ ops = 0

NextFold == ToConstElem \/ TryToConstElem

SpecFold == InitFold /\ [][NextFold]_vars

-----------------------------------------------------------------------------
(* C2 *)

\* a string literal folded to a pointer or a slice (not to a static array)
IsCachedStringFold ==
  /\ last.op \in {"toConstElem", "tryToConstElem"}
  /\ Exps[last.e].op = "StringExp"
  /\ DTypes[Exps[last.e].type].ty # "Tsarray"

StringGlobals == {i \in 1..Len(module) : module[i].name = ".str"}

\* C2: however often a pointer- or slice-typed string literal is folded, the
\* module holds one backing global for its content: the constant returned is
\* based on that global, and a fold of a content folded before creates nothing.
C2_StringLiteralOneGlobal ==
  /\ \A i, j \in StringGlobals : module[i].init = module[j].init => i = j
  /\ IsCachedStringFold =>
       /\ last.returned
       /\ StringKey(last.e) \in DOMAIN stringLiteralCache
       /\ BaseGlobal(last.ret) = stringLiteralCache[StringKey(last.e)]
       /\ BaseGlobal(last.ret) \in StringGlobals
       /\ module[BaseGlobal(last.ret)].init.elems = Append(Exps[last.e].elements, 0)
       /\ StringKey(last.e) \in last.stringsBefore => Len(module) = last.nBefore

\* the slice-typed literal folded after its content was folded already
C2_Witness ==
  /\ IsCachedStringFold
  /\ last.e = "str_a"
  /\ StringKey(last.e) \in last.stringsBefore
  /\ Len(module) = 1

-----------------------------------------------------------------------------
(* C3 *)

LiteralGlobals == {i \in 1..Len(module) : module[i].name \in {".structliteral", ".classref"}}

\* the literal whose address the last call folded, "" when it folded none
LastLiteral ==
  IF last.op \notin {"toConstElem", "tryToConstElem"} THEN ""
  ELSE IF Exps[last.e].op = "ClassReferenceExp" THEN Exps[last.e].e1
  ELSE IF Exps[last.e].op = "AddrExp" /\ Exps[Exps[last.e].e1].op = "StructLiteralExp"
    THEN Exps[last.e].e1
  ELSE ""

\* C3: every struct or class literal whose address was folded has exactly one
\* global, the one the cache names; a literal that refers to itself has its own
\* global's address in that field (the fold does not recurse without end); and
\* folding a literal that is cached already creates nothing and returns the
\* cached global.
C3_LiteralOneGlobal ==
  /\ ~overflow
  /\ \A se \in DOMAIN structLiteralCache :
       /\ structLiteralCache[se].g \in LiteralGlobals
       /\ module[structLiteralCache[se].g].origin = se
  /\ \A i, j \in LiteralGlobals : module[i].origin = module[j].origin => i = j
  /\ \A i \in LiteralGlobals : module[i].origin \in DOMAIN structLiteralCache
  /\ \A i \in LiteralGlobals :
       (module[i].origin \in {"sl_self", "clsval"} /\ module[i].init.k = "struct")
         => BaseGlobal(module[i].init.fields[2]) = i
  /\ (LastLiteral # "" /\ last.returned /\ ~isNull(last.ret)) =>
       /\ LastLiteral \in DOMAIN structLiteralCache
       /\ BaseGlobal(last.ret) = structLiteralCache[LastLiteral].g
       /\ LastLiteral \in last.cachedBefore => Len(module) = last.nBefore

\* the self-referring struct literal folded a second time
C3_Witness ==
  /\ last.op = "toConstElem"
  /\ last.e = "addr_self"
  /\ "sl_self" \in last.cachedBefore
  /\ last.returned
  /\ BaseGlobal(module[1].init.fields[2]) = 1

-----------------------------------------------------------------------------
(* C4 *)

IsArrayLiteralFold ==
  /\ last.op \in {"toConstElem", "tryToConstElem"}
  /\ Exps[last.e].op = "ArrayLiteralExp"

\* C4 as claimed: no array literal has more than one backing global
C4_ArrayLiteralMemoized ==
  \A i, j \in 1..Len(module) :
    (module[i].name = ".dynarrayStorage" /\ module[i].origin = module[j].origin) => i = j

\* C4, amended: every fold of an array literal whose type is not a static
\* array creates one new global .dynarrayStorage holding the folded elements,
\* constant exactly when the literal's type is const or immutable, and returns
\* a constant based on it; a static-array-typed literal creates no global.
C4_ArrayLiteralFreshGlobal ==
  IsArrayLiteralFold =>
    /\ last.returned
    /\ IF DTypes[Exps[last.e].type].ty = "Tsarray"
         THEN Len(module) = last.nBefore /\ last.ret.k = "array"
         ELSE /\ Len(module) = last.nBefore + 1
              /\ module[Len(module)].name = ".dynarrayStorage"
              /\ module[Len(module)].origin = last.e
              /\ module[Len(module)].isConstant = DTypes[Exps[last.e].type].const
              /\ Len(module[Len(module)].init.elems) = Len(Exps[last.e].elements)
              /\ BaseGlobal(last.ret) = Len(module)

\* the same dynamic array literal folded twice: two globals
C4_Witness ==
  /\ IsArrayLiteralFold
  /\ last.e = "al_dyn_c"
  /\ Len(module) = 2
  /\ module[1].origin = "al_dyn_c"
  /\ module[2].origin = "al_dyn_c"

-----------------------------------------------------------------------------
(* C5 *)

\* the diagnostics whose site calls fatal() unless gagged
FatalDiags == {"cannot cast", "is not a constant", "nested delegate",
               "non-global address", "need this"}

\* the diagnostics whose site only sets result = nullptr
PlainDiags == {"recursive reference", "non-constant expression", "ct cast of string"}

-----------------------------------------------------------------------------
(* C6 *)

\* C6: tryToConstElem never ends the compilation, and it returns null exactly
\* when a diagnostic was raised during the fold.
C6_TryNeverAborts ==
  last.op = "tryToConstElem" =>
    /\ ~aborted
    /\ isNull(last.ret) <=> (last.diags # {})

-----------------------------------------------------------------------------
(* The run-time cast engine: DValue objects, the instructions emitted into  *)
(* the current basic block, DtoCast and its per-category helpers.           *)

IntegralTys == {"Tbool", "Tint8", "Tuns8", "Tint16", "Tuns16", "Tint32", "Tuns32",
                "Tint64", "Tuns64"}

\* Type::isintegral; a vector answers for its element type
isintegral(t) == DTypes[t].ty \in IntegralTys \/ t \in {"int4", "int2v"}

\* Type::isunsigned
isunsigned(t) == DTypes[t].ty \in {"Tbool", "Tuns8", "Tuns16", "Tuns32", "Tuns64"}

\* Type::iscomplex
iscomplex(t) == DTypes[t].ty = "Tcomplex32"

\* Type::isfloating; a complex type is floating too
isfloating(t) == DTypes[t].ty \in {"Tfloat32", "Tfloat64", "Tcomplex32"} \/ t = "float4"

\* Type::size, in bytes
size(t) ==
  [bool |-> 1, byte |-> 1, ubyte |-> 1, short |-> 2, ushort |-> 2, int |-> 4, uint |-> 4,
   long |-> 8, ulong |-> 8, float |-> 4, double |-> 8, cfloat |-> 8, intptr |-> 8,
   C |-> 8, intarr |-> 16, int2 |-> 8, aa |-> 8, aa2 |-> 8, dg |-> 16, S |-> 8, S2 |-> 8,
   null |-> 8, int4 |-> 16, float4 |-> 16, int2v |-> 8][t]

isLLVMUnsigned(t) == isunsigned(t) \/ DTypes[t].ty = "Tpointer"

\* the types of the values the cast model casts, and the types it casts to
CastTypes == {"bool", "byte", "ubyte", "short", "ushort", "int", "uint", "long", "ulong",
              "E", "float", "double", "cfloat", "intptr", "C", "intarr", "int2", "aa",
              "aa2", "dg", "S", "S2", "null", "int4", "float4", "int2v"}

\* the front end asks for a cast to a vector only of a vector
CastTargets(from) ==
  IF DTypes[toBasetype(from)].ty = "Tvector" THEN CastTypes
  ELSE {t \in CastTypes : DTypes[t].ty # "Tvector"}

\* an IR value: its IR type and, for an integer whose value is known, its bytes,
\* least significant first (an i1 is one byte 0 or 1); <<>> otherwise
LLValue(type, bits) == [ty |-> type, bits |-> bits]

\* the number of bytes of an integer IR type
IntBytes(llty) ==
  [i1 |-> 1, i8 |-> 1, i16 |-> 2, i32 |-> 4, i64 |-> 8][llty[1]]

\* the value of zext, sext, trunc and icmp ne 0
ZExtValue(bits, n) == IF bits = <<>> THEN <<>> ELSE bits \o Fill(n - Len(bits), 0)

SExtValue(bits, n) ==
  IF bits = <<>> THEN <<>>
  ELSE bits \o Fill(n - Len(bits), IF bits[Len(bits)] >= 128 THEN 255 ELSE 0)

TruncValue(bits, n) == IF bits = <<>> THEN <<>> ELSE SubSeq(bits, 1, n)

IsNonZero(bits) ==
  IF bits = <<>> THEN <<>> ELSE IF \E k \in 1..Len(bits) : bits[k] # 0 THEN <<1>> ELSE <<0>>

\* the engine's state as it is threaded through one call
CastState ==
  [values |-> values, scopebb |-> scopebb, errors |-> errors, aborted |-> aborted,
   gag |-> gag, gaggedErrors |-> gaggedErrors, diags |-> {}]

\* an instruction appended to the current basic block, and its result
Inst(st, op, operand, type, bits) ==
  [st |-> Live(st, [st EXCEPT !.scopebb = Append(@, [op |-> op, from |-> operand.ty,
                                                     to |-> type])]),
   v |-> LLValue(type, bits)]

NoInst(st, v) == [st |-> st, v |-> v]

\* new DImValue / DLValue / DNullValue / DSliceValue: a fresh object, named by
\* its index; `from` is the object it was cast from
New(st, kind, type, v, from) ==
  [st |-> Live(st, [st EXCEPT !.values =
             Append(@, [type |-> type, kind |-> kind, val |-> v, from |-> from])]),
   d |-> IF st.aborted THEN 0 ELSE Len(st.values) + 1]

NewDImValue(r, type, from) == New(r.st, "DImValue", type, r.v, from)

\* a function left by fatal(), or without a return statement
NoValue(st) == [st |-> st, d |-> 0]

isLVal(st, i) == st.values[i].kind = "DLValue"

\* DtoRVal: an lvalue is loaded
DtoRVal(st, i) ==
  IF isLVal(st, i)
    THEN Inst(st, "load", LLValue(<<"*">> \o st.values[i].val.ty, <<>>),
              st.values[i].val.ty, st.values[i].val.bits)
    ELSE NoInst(st, st.values[i].val)

\* DtoLVal: the address held; no instruction
DtoLVal(st, i) == NoInst(st, LLValue(<<"*">> \o st.values[i].val.ty, st.values[i].val.bits))

\* IRBuilder bitcast of a value: nothing when the type is the same already
CreateBitCast(st, v, type) ==
  IF v.ty = type THEN NoInst(st, v) ELSE Inst(st, "bitcast", v, type, v.bits)

CreateICmpNE(st, v) == Inst(st, "icmp ne", v, <<"i1">>, IsNonZero(v.bits))

\* the slip: the error is reported and the function carries on
InvalidCast_Poison(st, msg) == error(st, msg)

\* error(loc, "invalid cast from `%s` to `%s`"); fatal();
InvalidCast(st, msg) == fatal(error(st, msg))

\* the cast helpers of other files: each returns a new immediate value
DtoComplex(st, i, to) ==
  New(st, "DImValue", to, LLValue(DtoType(to), <<>>), i)

DtoCastComplex(st, i, to) ==
  New(st, "DImValue", to, LLValue(DtoType(to), <<>>), i)

DtoCastClass(st, i, to) ==
  New(st, "DImValue", to, LLValue(DtoType(to), <<>>), i)

DtoCastArray(st, i, to) ==
  New(st, "DImValue", to, LLValue(DtoType(to), <<>>), i)

\* the slip: the source's signedness is not looked at
CastIntWiden_AlwaysSExt(st, from, rval, tolltype) ==
  Inst(st, "sext", rval, tolltype, SExtValue(rval.bits, IntBytes(tolltype)))

\* the widening branch of DtoCastInt
CastIntWiden(st, from, rval, tolltype) ==
  IF isLLVMUnsigned(from) \/ DTypes[from].ty = "Tbool"
    THEN Inst(st, "zext", rval, tolltype, ZExtValue(rval.bits, IntBytes(tolltype)))
    ELSE Inst(st, "sext", rval, tolltype, SExtValue(rval.bits, IntBytes(tolltype)))

\* the slip: the value is retyped, its high bytes kept
CastIntNarrow_BitCast(st, rval, tolltype) == Inst(st, "bitcast", rval, tolltype, rval.bits)

\* the narrowing branch of DtoCastInt
CastIntNarrow(st, rval, tolltype) ==
  Inst(st, "trunc", rval, tolltype, TruncValue(rval.bits, IntBytes(tolltype)))

DtoCastInt(st, i, _to) ==
  LET tolltype == DtoType(_to)
      to == toBasetype(_to)
      from == toBasetype(st.values[i].type)
  IN Bind(DtoRVal(st, i), LAMBDA r :
       IF r.v.ty = tolltype THEN NewDImValue(r, _to, i)
       ELSE IF DTypes[to].ty = "Tbool" THEN NewDImValue(CreateICmpNE(r.st, r.v), _to, i)
       ELSE IF isintegral(to) THEN
         IF size(from) < size(to) \/ DTypes[from].ty = "Tbool"
           THEN NewDImValue(CastIntWiden(r.st, from, r.v, tolltype), _to, i)
         ELSE IF size(from) > size(to)
           THEN NewDImValue(CastIntNarrow(r.st, r.v, tolltype), _to, i)
         ELSE NewDImValue(CreateBitCast(r.st, r.v, tolltype), _to, i)
       ELSE IF iscomplex(to) THEN DtoComplex(r.st, i, _to)
       ELSE IF isfloating(to) THEN
         NewDImValue(Inst(r.st, IF isunsigned(from) THEN "uitofp" ELSE "sitofp", r.v,
                          tolltype, <<>>), _to, i)
       ELSE IF DTypes[to].ty = "Tpointer" THEN
         NewDImValue(Inst(r.st, "inttoptr", r.v, tolltype, <<>>), _to, i)
       ELSE NewDImValue(NoInst(InvalidCast(r.st, "invalid cast"), r.v), _to, i))

DtoCastPtr(st, i, to) ==
  LET tolltype == DtoType(to)
      totype == toBasetype(to)
  IN IF DTypes[totype].ty \in {"Tpointer", "Tclass", "Taarray"} THEN
       Bind(DtoRVal(st, i), LAMBDA r :
         NewDImValue(CreateBitCast(r.st, r.v, tolltype), to, i))
     ELSE IF DTypes[totype].ty = "Tbool" THEN
       Bind(DtoRVal(st, i), LAMBDA r : NewDImValue(CreateICmpNE(r.st, r.v), to, i))
     ELSE IF isintegral(totype) THEN
       Bind(DtoRVal(st, i), LAMBDA r :
         NewDImValue(Inst(r.st, "ptrtoint", r.v, tolltype, <<>>), to, i))
     ELSE NewDImValue(NoInst(InvalidCast(st, "invalid cast"), LLValue(tolltype, <<>>)), to, i)

DtoCastFloat(st, i, to) ==
  LET tolltype == DtoType(to)
      totype == toBasetype(to)
      fromtype == toBasetype(st.values[i].type)
  IN IF st.values[i].type = to THEN [st |-> st, d |-> i]
     ELSE IF DTypes[totype].ty = "Tbool" THEN
       Bind(DtoRVal(st, i), LAMBDA r :
         NewDImValue(Inst(r.st, "fcmp une", r.v, <<"i1">>, <<>>), to, i))
     ELSE IF iscomplex(totype) THEN DtoComplex(st, i, to)
     ELSE IF isfloating(totype) THEN
       Bind(DtoRVal(st, i), LAMBDA r :
         IF size(fromtype) = size(totype) THEN NewDImValue(r, to, i)
         ELSE IF size(fromtype) < size(totype)
           THEN NewDImValue(Inst(r.st, "fpext", r.v, tolltype, <<>>), to, i)
         ELSE NewDImValue(Inst(r.st, "fptrunc", r.v, tolltype, <<>>), to, i))
     ELSE IF isintegral(totype) THEN
       Bind(DtoRVal(st, i), LAMBDA r :
         NewDImValue(Inst(r.st, IF isunsigned(totype) THEN "fptoui" ELSE "fptosi", r.v,
                          tolltype, <<>>), to, i))
     ELSE NewDImValue(NoInst(InvalidCast(st, "invalid cast"), LLValue(tolltype, <<>>)), to, i)

\* DtoPaintType, for a delegate source
DtoPaintType(st, i, to) ==
  LET dgty == toBasetype(to)
  IN IF isLVal(st, i) THEN
       Bind(DtoLVal(st, i), LAMBDA l :
         Bind(CreateBitCast(l.st, l.v, <<"*">> \o DtoType(dgty)), LAMBDA p :
           New(p.st, "DLValue", to, LLValue(DtoType(dgty), <<>>), i)))
     ELSE
       Bind(DtoRVal(st, i), LAMBDA r :
         Bind(Inst(r.st, "extractvalue", r.v, <<"*", "i8">>, <<>>), LAMBDA c :
           Bind(Inst(c.st, "extractvalue", r.v, <<"*", "void()">>, <<>>), LAMBDA f :
             Bind(CreateBitCast(f.st, f.v, <<"*", "void()">>), LAMBDA b :
               New(b.st, "DImValue", to, LLValue(DtoType(dgty), <<>>), i)))))

DtoCastDelegate(st, i, to) ==
  IF DTypes[toBasetype(to)].ty = "Tdelegate" THEN DtoPaintType(st, i, to)
  ELSE IF DTypes[toBasetype(to)].ty = "Tbool" THEN
    Bind(DtoRVal(st, i), LAMBDA r :
      NewDImValue(Inst(r.st, "icmp ne", r.v, <<"i1">>, <<>>), to, i))
  ELSE NoValue(InvalidCast(st, "invalid cast"))

\* DtoAllocaDump(value, asType, alignment): a stack slot holding the value
\* Type::alignsize as DtoAlignment reads it: a scalar is aligned to its size,
\* an array to its element, a slice or a delegate to a pointer, a struct to
\* its widest field
alignsize(t) ==
  CASE DTypes[t].ty = "Tsarray" -> IF t = "int2" THEN 4 ELSE 1
    [] DTypes[t].ty \in {"Tarray", "Tdelegate"} -> 8
    [] DTypes[t].ty = "Tstruct" -> 4
    [] DTypes[t].ty = "Tcomplex32" -> 4
    [] OTHER -> size(toBasetype(t))

DtoAlignment(t) == alignsize(toBasetype(t))

\* i1ToI8(voidToI8(t)): the type a value of IR type t has in memory
i1ToI8(ty) == IF ty \in {<<"i1">>, <<"void">>} THEN <<"i8">> ELSE ty

\* DtoRawAlloca: one alloca of the IR type, with the alignment when it is not 0
DtoRawAlloca(st, lltype, alignment) ==
  [st |-> Live(st, [st EXCEPT !.scopebb =
             Append(@, [op |-> "alloca", from |-> lltype, to |-> <<"*">> \o lltype,
                        align |-> alignment])]),
   v |-> LLValue(<<"*">> \o lltype, <<>>)]

\* DtoStoreZextI8: a bool is widened to a byte, then stored
DtoStoreZextI8(st, v, ptr) ==
  IF v.ty = <<"i1">>
    THEN Bind(Inst(st, "zext", v, <<"i8">>, v.bits), LAMBDA z :
           Inst(z.st, "store", z.v, ptr.ty, <<>>))
    ELSE Inst(st, "store", v, ptr.ty, <<>>)

\* the slip: the slot always has the type asked for, however wide the value
DtoAllocaDump_AsType(st, v, asType, alignment) ==
  Bind(DtoRawAlloca(st, i1ToI8(asType), alignment), LAMBDA mem :
    Bind(CreateBitCast(mem.st, mem.v, <<"*">> \o i1ToI8(v.ty)), LAMBDA p :
      Bind(DtoStoreZextI8(p.st, v, p.v), LAMBDA s :
        Bind(CreateBitCast(s.st, mem.v, <<"*">> \o i1ToI8(asType)), LAMBDA r :
          [st |-> r.st, v |-> LLValue(r.v.ty, v.bits)]))))

\* DtoAllocaDump(LLValue*, LLType* asType, int alignment): the slot has the
\* wider of the value's memory type and the memory type asked for; the value
\* is stored through a pointer to its own type and the slot is returned as a
\* pointer to the type asked for
DtoAllocaDump(st, v, asType, alignment) ==
  LET memType == i1ToI8(v.ty)
      asMemType == i1ToI8(asType)
      allocaType == IF TypeStoreSize(memType) <= TypeAllocSize(asMemType)
                      THEN asMemType ELSE memType
  IN Bind(DtoRawAlloca(st, allocaType, alignment), LAMBDA mem :
       Bind(CreateBitCast(mem.st, mem.v, <<"*">> \o memType), LAMBDA p :
         Bind(DtoStoreZextI8(p.st, v, p.v), LAMBDA s :
           Bind(CreateBitCast(s.st, mem.v, <<"*">> \o asMemType), LAMBDA r :
             [st |-> r.st, v |-> LLValue(r.v.ty, v.bits)]))))

DtoCastVector(st, i, to) ==
  LET totype == toBasetype(to)
      tolltype == DtoType(to)
  IN IF DTypes[totype].ty = "Tsarray" THEN
       IF isLVal(st, i) THEN
         Bind(DtoLVal(st, i), LAMBDA l :
           Bind(CreateBitCast(l.st, l.v, <<"*">> \o tolltype), LAMBDA p :
             New(p.st, "DLValue", to, LLValue(tolltype, <<>>), i)))
       ELSE
         Bind(DtoRVal(st, i), LAMBDA r :
           Bind(DtoAllocaDump(r.st, r.v, tolltype, DtoAlignment(st.values[i].type)), LAMBDA a :
             New(a.st, "DLValue", to, LLValue(tolltype, <<>>), i)))
     ELSE IF DTypes[totype].ty = "Tvector" /\ size(to) = size(st.values[i].type) THEN
       Bind(DtoRVal(st, i), LAMBDA r :
         NewDImValue(CreateBitCast(r.st, r.v, tolltype), to, i))
     ELSE NoValue(InvalidCast(st, "invalid cast"))

DtoCastStruct(st, i, to) ==
  IF DTypes[toBasetype(to)].ty = "Tstruct" THEN
    Bind(DtoLVal(st, i), LAMBDA l :
      Bind(CreateBitCast(l.st, l.v, <<"*">> \o DtoType(to)), LAMBDA p :
        New(p.st, "DLValue", to, LLValue(DtoType(to), <<>>), i)))
  ELSE NoValue(InvalidCast(st, "invalid struct cast"))

DtoNullValue(st, type, from) ==
  LET basetype == toBasetype(type)
      basety == DTypes[basetype].ty
      lltype == DtoType(basetype)
  IN IF iscomplex(basetype) THEN New(st, "DImValue", type, LLValue(DtoType(type), <<>>), from)
     ELSE IF isintegral(basetype) \/ isfloating(basetype)
             \/ basety \in {"Tpointer", "Tnull", "Tclass", "Tdelegate", "Taarray"}
       THEN New(st, "DNullValue", type,
                LLValue(lltype, IF isintegral(basetype) THEN Fill(IntBytes(lltype), 0) ELSE <<>>),
                from)
     ELSE IF basety = "Tarray" THEN New(st, "DSliceValue", type, LLValue(lltype, <<>>), from)
     ELSE NoValue(InvalidCast(st, "null not known"))

\* what DtoCast answers: the state, the object returned, the branch that answered
By(r, branch) == [st |-> r.st, d |-> r.d, by |-> branch]

\* the slip: an associative array cast to an associative array is handed back
CastFromAA_SameObject(st, i, to) ==
  IF DTypes[toBasetype(to)].ty = "Taarray" THEN [st |-> st, d |-> i] ELSE [st |-> st, d |-> -1]

\* the branches of DtoCast for an associative array source: the object returned
\* or, when none of them applies, d = -1
CastFromAA(st, i, to) ==
  LET totype == toBasetype(to)
  IN IF DTypes[totype].ty = "Taarray" THEN
       IF isLVal(st, i)
         THEN Bind(DtoLVal(st, i), LAMBDA l :
                New(l.st, "DLValue", to, LLValue(Tail(l.v.ty), l.v.bits), i))
         ELSE Bind(DtoRVal(st, i), LAMBDA r : NewDImValue(r, to, i))
     ELSE IF DTypes[totype].ty = "Tpointer" THEN
       Bind(DtoRVal(st, i), LAMBDA r :
         NewDImValue(CreateBitCast(r.st, r.v, DtoType(to)), to, i))
     ELSE IF DTypes[totype].ty = "Tbool" THEN
       Bind(DtoRVal(st, i), LAMBDA r : NewDImValue(CreateICmpNE(r.st, r.v), to, i))
     ELSE [st |-> st, d |-> -1]

\* the slip: the integral test comes before the vector test
DtoCastRest_IntegralFirst(st, i, to) ==
  LET fromtype == toBasetype(st.values[i].type)
      totype == toBasetype(to)
      fromty == DTypes[fromtype].ty
  IN IF fromtype = totype THEN By([st |-> st, d |-> i], "same type")
     ELSE IF isintegral(fromtype) THEN By(DtoCastInt(st, i, to), "DtoCastInt")
     ELSE IF fromty = "Tvector" THEN By(DtoCastVector(st, i, to), "DtoCastVector")
     ELSE IF iscomplex(fromtype) THEN By(DtoCastComplex(st, i, to), "DtoCastComplex")
     ELSE IF isfloating(fromtype) THEN By(DtoCastFloat(st, i, to), "DtoCastFloat")
     ELSE IF fromty = "Tclass" THEN By(DtoCastClass(st, i, to), "DtoCastClass")
     ELSE IF fromty \in {"Tarray", "Tsarray"} THEN By(DtoCastArray(st, i, to), "DtoCastArray")
     ELSE IF fromty \in {"Tpointer", "Tfunction"} THEN By(DtoCastPtr(st, i, to), "DtoCastPtr")
     ELSE IF fromty = "Tdelegate" THEN By(DtoCastDelegate(st, i, to), "DtoCastDelegate")
     ELSE IF fromty = "Tstruct" THEN By(DtoCastStruct(st, i, to), "DtoCastStruct")
     ELSE IF fromty \in {"Tnull", "Tnoreturn"} THEN By(DtoNullValue(st, to, i), "DtoNullValue")
     ELSE By(NoValue(InvalidCast(st, "invalid cast")), "default")

\* DtoCast past the associative array branches
DtoCastRest(st, i, to) ==
  LET fromtype == toBasetype(st.values[i].type)
      totype == toBasetype(to)
      fromty == DTypes[fromtype].ty
  IN IF fromtype = totype THEN By([st |-> st, d |-> i], "same type")
     ELSE IF fromty = "Tvector" THEN By(DtoCastVector(st, i, to), "DtoCastVector")
     ELSE IF isintegral(fromtype) THEN By(DtoCastInt(st, i, to), "DtoCastInt")
     ELSE IF iscomplex(fromtype) THEN By(DtoCastComplex(st, i, to), "DtoCastComplex")
     ELSE IF isfloating(fromtype) THEN By(DtoCastFloat(st, i, to), "DtoCastFloat")
     ELSE IF fromty = "Tclass" THEN By(DtoCastClass(st, i, to), "DtoCastClass")
     ELSE IF fromty \in {"Tarray", "Tsarray"} THEN By(DtoCastArray(st, i, to), "DtoCastArray")
     ELSE IF fromty \in {"Tpointer", "Tfunction"} THEN By(DtoCastPtr(st, i, to), "DtoCastPtr")
     ELSE IF fromty = "Tdelegate" THEN By(DtoCastDelegate(st, i, to), "DtoCastDelegate")
     ELSE IF fromty = "Tstruct" THEN By(DtoCastStruct(st, i, to), "DtoCastStruct")
     ELSE IF fromty \in {"Tnull", "Tnoreturn"} THEN By(DtoNullValue(st, to, i), "DtoNullValue")
     ELSE By(NoValue(InvalidCast(st, "invalid cast")), "default")

DtoCast(st, i, to) ==
  IF DTypes[toBasetype(st.values[i].type)].ty = "Taarray" THEN
    Bind(CastFromAA(st, i, to), LAMBDA a :
      IF a.d # -1 THEN By(a, "associative array") ELSE DtoCastRest(st, i, to))
  ELSE DtoCastRest(st, i, to)

-----------------------------------------------------------------------------
(* The cast model: a value of any category is at hand; the code generator   *)
(* casts it, and the values the casts return, to any type.                   *)

\* the integer values at hand, as <<low bytes, top byte>>: zero, the greatest
\* signed value, the least signed value, all ones
BoundaryBytes == {<<0, 0>>, <<255, 127>>, <<0, 128>>, <<255, 255>>}

IntValues(n) == {Fill(n - 1, b[1]) \o <<b[2]>> : b \in BoundaryBytes}

InitialBits(t) ==
  IF DTypes[t].ty = "Tbool" THEN {<<0>>, <<1>>}
  ELSE IF DTypes[toBasetype(t)].ty \in IntegralTys THEN IntValues(size(toBasetype(t)))
  ELSE {<<>>}

\* a struct or a static array lives in memory, the null literal does not
InitialKinds(t) ==
  IF DTypes[t].ty \in {"Tstruct", "Tsarray"} THEN {"DLValue"}
  ELSE IF DTypes[t].ty = "Tnull" THEN {"DImValue"}
  ELSE {"DLValue", "DImValue"}

CastValue ==
  /\ ~aborted
  /\ ops < MaxCastOps
  /\ \E i \in 1..Len(values) :
       \E to \in CastTargets(values[i].type) :
         Bind(DtoCast(CastState, i, to), LAMBDA r :
           /\ values' = r.st.values
           /\ scopebb' = r.st.scopebb
           /\ errors' = r.st.errors
           /\ gaggedErrors' = r.st.gaggedErrors
           /\ aborted' = r.st.aborted
           /\ last' = [op |-> "DtoCast", val |-> i, to |-> to, ret |-> r.d, by |-> r.by,
                       diags |-> r.st.diags, nValuesBefore |-> Len(values),
                       nInstsBefore |-> Len(scopebb)])
  /\ ops' = ops + 1
  /\ UNCHANGED <<target, module, gag, stringLiteralCache, structLiteralCache, inuse,
                 overflow, abiVars>>

InitCast ==
  /\ target = [arch |-> "x86", windows |-> FALSE, threadModel |-> clThreadModelDefault]
  /\ module = <<>>
  /\ errors = 0
  /\ aborted = FALSE
  /\ gag \in {0, 1}
  /\ gaggedErrors = 0
  /\ stringLiteralCache = <<>>
  /\ structLiteralCache = <<>>
  /\ inuse = <<>>
  /\ overflow = FALSE
  /\ \E t \in CastTypes : \E bits \in InitialBits(t) : \E kind \in InitialKinds(t) :
       values = <<[type |-> t, kind |-> kind, val |-> LLValue(DtoType(t), bits), from |-> 0]>>
  /\ scopebb = <<>>
  /\ tf = <<>>
  /\ irFuncTys = <<>>
  /\ last = [op |-> "none"]
  /\ ops = 0

NextCast == CastValue

SpecCast == InitCast /\ [][NextCast]_vars

-----------------------------------------------------------------------------
(* C7 *)

IsCast == last.op = "DtoCast"

LastFrom == toBasetype(values[last.val].type)

LastTo == toBasetype(last.to)

IsScalarInt(t) == DTypes[t].ty \in IntegralTys

\* pairs no branch of DtoCast, DtoCastInt, DtoCastPtr, DtoCastFloat,
\* DtoCastDelegate, DtoCastVector recognises
UnrecognisedPair ==
  \/ IsScalarInt(LastFrom) /\ DTypes[LastTo].ty \in {"Tstruct", "Tarray", "Tsarray", "Tclass",
                                                    "Tdelegate", "Taarray", "Tnull"}
  \/ DTypes[LastFrom].ty = "Tpointer" /\ (isfloating(LastTo) \/ DTypes[LastTo].ty \in
                                          {"Tstruct", "Tarray", "Tsarray", "Tdelegate", "Tnull"})
  \/ DTypes[LastFrom].ty \in {"Tfloat32", "Tfloat64"}
       /\ DTypes[LastTo].ty \in {"Tpointer", "Tstruct", "Tarray", "Tsarray", "Tclass",
                                 "Tdelegate", "Taarray", "Tnull"}
  \/ DTypes[LastFrom].ty = "Tdelegate" /\ DTypes[LastTo].ty \notin {"Tdelegate", "Tbool"}
  \/ DTypes[LastFrom].ty = "Tvector" /\ DTypes[LastTo].ty \notin {"Tvector", "Tsarray"}
  \/ DTypes[LastFrom].ty = "Tvector" /\ DTypes[LastTo].ty = "Tvector"
       /\ size(LastFrom) # size(LastTo)
  \/ DTypes[LastFrom].ty = "Taarray" /\ DTypes[LastTo].ty \notin {"Taarray", "Tpointer", "Tbool"}

-----------------------------------------------------------------------------
(* C8 *)

IsSameTypeCast == IsCast /\ LastFrom = LastTo

\* C8 as claimed: a cast to the value's own base type returns the object it
\* was given and emits nothing, whatever the category
C8_SameTypeSameObject ==
  IsSameTypeCast => (last.ret = last.val /\ Len(scopebb) = last.nInstsBefore)

\* C8, amended: a cast to the value's own base type emits no instruction; it
\* returns the very object it was given in every category but the associative
\* array, for which it returns a new Value of the target type that holds the
\* same IR value and is an lvalue exactly when the source is.
C8_SameTypeNoInstruction ==
  IsSameTypeCast =>
    /\ ~aborted
    /\ Len(scopebb) = last.nInstsBefore
    /\ IF DTypes[LastFrom].ty = "Taarray"
         THEN /\ last.ret = last.nValuesBefore + 1
              /\ Len(values) = last.nValuesBefore + 1
              /\ values[last.ret].type = last.to
              /\ values[last.ret].val = values[last.val].val
              /\ isLVal(CastState, last.ret) <=> isLVal(CastState, last.val)
              /\ values[last.ret].from = last.val
         ELSE /\ last.ret = last.val
              /\ Len(values) = last.nValuesBefore

\* an associative array in memory cast to its own type: a second object
C8_Witness ==
  /\ IsSameTypeCast
  /\ LastFrom = "aa"
  /\ values[last.val].kind = "DLValue"
  /\ last.ret = 2
  /\ values[2].kind = "DLValue"

-----------------------------------------------------------------------------
(* C9 *)

\* a cast of an integer whose value is known to a wider integer type
IsWideningCast ==
  /\ IsCast
  /\ IsScalarInt(LastFrom)
  /\ IsScalarInt(LastTo)
  /\ DTypes[LastTo].ty # "Tbool"
  /\ size(LastFrom) < size(LastTo)
  /\ values[last.val].val.bits # <<>>

\* C9: a widening integer cast keeps the source's bytes and fills the bytes
\* above them with zeros when the source type is unsigned or bool, with copies
\* of the source's sign bit when it is signed, whatever the target's
\* signedness: ushort 0xFFFF to int gives 0x0000FFFF, int -1 to long gives
\* 0xFFFFFFFFFFFFFFFF.
C9_WideningBySourceSignedness ==
  IsWideningCast =>
    /\ last.ret # 0
    /\ values[last.ret].val.ty = DtoType(LastTo)
    /\ Len(values[last.ret].val.bits) = size(LastTo)
    /\ \A k \in 1..size(LastFrom) :
         values[last.ret].val.bits[k] = values[last.val].val.bits[k]
    /\ \A k \in (size(LastFrom) + 1)..size(LastTo) :
         values[last.ret].val.bits[k] =
           IF DTypes[LastFrom].ty \in {"Tbool", "Tuns8", "Tuns16", "Tuns32"} THEN 0
           ELSE IF values[last.val].val.bits[size(LastFrom)] >= 128 THEN 255
           ELSE 0
    /\ scopebb[Len(scopebb)].op =
         IF DTypes[LastFrom].ty \in {"Tbool", "Tuns8", "Tuns16", "Tuns32"} THEN "zext"
         ELSE "sext"
    /\ (LastFrom = "ushort" /\ LastTo = "int" /\ values[last.val].val.bits = <<255, 255>>)
         => values[last.ret].val.bits = <<255, 255, 0, 0>>
    /\ (LastFrom = "int" /\ LastTo = "long"
        /\ values[last.val].val.bits = <<255, 255, 255, 255>>)
         => values[last.ret].val.bits = <<255, 255, 255, 255, 255, 255, 255, 255>>

\* ushort 0xFFFF cast to int
C9_Witness ==
  /\ IsWideningCast
  /\ LastFrom = "ushort"
  /\ LastTo = "int"
  /\ values[last.val].val.bits = <<255, 255>>
  /\ values[last.ret].val.bits = <<255, 255, 0, 0>>

\* int -1 cast to long
C9_WitnessSigned ==
  /\ IsWideningCast
  /\ LastFrom = "int"
  /\ LastTo = "long"
  /\ values[last.val].val.bits = <<255, 255, 255, 255>>
  /\ Len(values[last.ret].val.bits) = 8

-----------------------------------------------------------------------------
(* C10 *)

\* U is a wider integer type than T
Wider(T, U) ==
  /\ IsScalarInt(T)
  /\ IsScalarInt(U)
  /\ size(T) < size(U)

\* the last cast took back to its type T a value that a cast had widened
IsRoundTrip ==
  /\ IsCast
  /\ values[last.val].from # 0
  /\ values[values[last.val].from].val.bits # <<>>
  /\ Wider(toBasetype(values[values[last.val].from].type), LastFrom)
  /\ LastTo = toBasetype(values[values[last.val].from].type)

\* C10: an integer value widened to a wider integer type and cast back to its
\* own type has the bit pattern it had.
C10_WidenTruncateRoundTrip ==
  IsRoundTrip =>
    /\ last.ret # 0
    /\ values[last.ret].val = values[values[last.val].from].val

\* short 0x8000 widened to ulong and cast back
C10_Witness ==
  /\ IsRoundTrip
  /\ LastFrom = "ulong"
  /\ LastTo = "short"
  /\ values[1].val.bits = <<0, 128>>
  /\ values[2].val.bits = <<0, 128, 255, 255, 255, 255, 255, 255>>
  /\ values[last.ret].val.bits = <<0, 128>>

-----------------------------------------------------------------------------
(* The assignment helper DtoAssign.  A DLValue of this model carries, beside *)
(* the content of its memory, the IR value that is its address (addr) and    *)
(* the location that address has when the program runs (loc): two IR values  *)
(* may be the same location.  The content follows the stores emitted.        *)

\* StructDeclaration::fields.length
fieldsLength(t) == IF t = "S0" THEN 0 ELSE 2

inMemory(v) == v.kind = "DLValue" /\ "loc" \in DOMAIN v

\* the memory at the lvalue's location takes the bytes stored
Written(st, lhs, bits) ==
  Live(st, [st EXCEPT !.values =
    [k \in DOMAIN st.values |->
       IF inMemory(st.values[k]) /\ st.values[k].loc = st.values[lhs].loc
         THEN [st.values[k] EXCEPT !.val.bits = bits]
         ELSE st.values[k]]])

\* DtoStore(r, l) / CreateStore(r, l)
DtoStore(st, r, lhs) ==
  Written(Inst(st, "store", r, <<"*">> \o st.values[lhs].val.ty, <<>>).st, lhs, r.bits)

\* DtoMemCpy(dst, src): one memcpy of the struct's bytes
DtoMemCpy(st, lhs, rhs) ==
  Written(Live(st, [st EXCEPT !.scopebb =
                      Append(@, [op |-> "memcpy", from |-> st.values[rhs].addr,
                                 to |-> st.values[lhs].addr])]),
          lhs, st.values[rhs].val.bits)

\* the slip: the copy is emitted without comparing the two addresses
AssignStruct_NoIdentityCheck(st, lhs, rhs) ==
  IF fieldsLength(toBasetype(st.values[lhs].type)) > 0 THEN DtoMemCpy(st, lhs, rhs) ELSE st

\* the struct branch of DtoAssign
AssignStruct(st, lhs, rhs) ==
  IF fieldsLength(toBasetype(st.values[lhs].type)) > 0
    THEN IF st.values[rhs].addr # st.values[lhs].addr THEN DtoMemCpy(st, lhs, rhs) ELSE st
    ELSE st

\* the slip: the right-hand side is stored as it is
AssignScalar_Uncast(st, lhs, rhs) ==
  Bind(DtoRVal(st, rhs), LAMBDA r : DtoStore(r.st, r.v, lhs))

\* the last branch of DtoAssign: a direct store, after a cast when the IR
\* types differ, after a bitcast when they differ still
AssignScalar(st, lhs, rhs) ==
  LET lit == st.values[lhs].val.ty
  IN Bind(DtoRVal(st, rhs), LAMBDA r :
       IF r.v.ty # lit
         THEN Bind(DtoCast(r.st, rhs, st.values[lhs].type), LAMBDA c :
                IF c.d = 0 THEN c.st
                ELSE Bind(DtoRVal(c.st, c.d), LAMBDA r2 :
                       Bind(CreateBitCast(r2.st, r2.v, lit), LAMBDA b :
                         DtoStore(b.st, b.v, lhs))))
         ELSE DtoStore(r.st, r.v, lhs))

DtoAssign(st, lhs, rhs) ==
  LET t == toBasetype(st.values[lhs].type)
      ty == DTypes[t].ty
  IN IF ty = "Tbool" THEN
       Bind(DtoRVal(st, rhs), LAMBDA r :
         Bind(Inst(r.st, "zext", r.v, <<"i8">>, r.v.bits), LAMBDA z :
           DtoStore(z.st, z.v, lhs)))
     ELSE IF ty = "Tstruct" THEN AssignStruct(st, lhs, rhs)
     ELSE IF ty \in {"Tarray", "Tsarray"} THEN
       Written(Inst(st, "DtoArrayAssign", st.values[rhs].val, st.values[lhs].val.ty, <<>>).st,
               lhs, st.values[rhs].val.bits)
     ELSE IF ty = "Tdelegate" THEN
       Bind(DtoRVal(st, rhs), LAMBDA r : DtoStore(r.st, r.v, lhs))
     ELSE IF ty = "Tclass" THEN
       Bind(DtoRVal(st, rhs), LAMBDA r :
         Bind(CreateBitCast(r.st, r.v, st.values[lhs].val.ty), LAMBDA b :
           DtoStore(b.st, b.v, lhs)))
     ELSE IF iscomplex(t) THEN
       Bind(DtoCast(st, rhs, st.values[lhs].type), LAMBDA c :
         Bind(DtoRVal(c.st, c.d), LAMBDA r : DtoStore(r.st, r.v, lhs)))
     ELSE AssignScalar(st, lhs, rhs)

\* the front end has type-checked the assignment: the right-hand side has the
\* left-hand side's type, or is an integer or floating value not converted yet
Assignable(l, r) ==
  \/ toBasetype(l.type) = toBasetype(r.type)
  \/ toBasetype(l.type) \in {"int", "long"} /\ toBasetype(r.type) \in {"short", "int"}
  \/ toBasetype(l.type) = "cfloat" /\ toBasetype(r.type) = "float"

AssignValue ==
  /\ ~aborted
  /\ ops < MaxAssignOps
  /\ \E lhs \in 1..Len(values) : \E rhs \in 1..Len(values) :
       /\ inMemory(values[lhs])
       /\ Assignable(values[lhs], values[rhs])
       /\ Bind(DtoAssign(CastState, lhs, rhs), LAMBDA st :
            /\ values' = st.values
            /\ scopebb' = st.scopebb
            /\ errors' = st.errors
            /\ gaggedErrors' = st.gaggedErrors
            /\ aborted' = st.aborted
            /\ last' = [op |-> "DtoAssign", lhs |-> lhs, rhs |-> rhs, before |-> values,
                        nInstsBefore |-> Len(scopebb)])
  /\ ops' = ops + 1
  /\ UNCHANGED <<target, module, gag, stringLiteralCache, structLiteralCache, inuse,
                 overflow, abiVars>>

\* a value in memory: its type, the IR value of its address, its location, its bytes
InMemory(type, addr, loc, bits) ==
  [type |-> type, kind |-> "DLValue", val |-> LLValue(DtoType(type), bits), from |-> 0,
   addr |-> addr, loc |-> loc]

Immediate(type, bits) ==
  [type |-> type, kind |-> "DImValue", val |-> LLValue(DtoType(type), bits), from |-> 0]

\* an lvalue whose address points to another IR type than its D type's (the
\* case DtoAssign's last branch keeps its second bitcast for)
Painted(v, lltype) == [v EXCEPT !.val.ty = lltype]

\* the contents a struct of two byte fields may have
StructBytes == {<<1, 2>>, <<3, 4>>}

\* the values at hand: the struct variable a (evaluated twice), the struct
\* variable b, the struct *p, which may be a itself, two empty structs, and
\* scalars of the other categories
InitAssign ==
  /\ target = [arch |-> "x86", windows |-> FALSE, threadModel |-> clThreadModelDefault]
  /\ module = <<>>
  /\ errors = 0
  /\ aborted = FALSE
  /\ gag = 0
  /\ gaggedErrors = 0
  /\ stringLiteralCache = <<>>
  /\ structLiteralCache = <<>>
  /\ inuse = <<>>
  /\ overflow = FALSE
  /\ \E a \in StructBytes : \E b \in StructBytes : \E pLoc \in {"a", "p"} :
     \E x \in {<<0, 0, 0, 0>>, <<255, 255, 255, 255>>} :
       values = << InMemory("S", "%a", "a", a),
                   InMemory("S", "%a", "a", a),
                   InMemory("S", "%b", "b", b),
                   InMemory("S", "%p", pLoc, IF pLoc = "a" THEN a ELSE b),
                   InMemory("S0", "%e", "e", <<0>>),
                   InMemory("S0", "%e", "e", <<0>>),
                   InMemory("S0", "%f", "f", <<0>>),
                   InMemory("int", "%x", "x", x),
                   Immediate("short", <<0, 128>>),
                   InMemory("long", "%l", "l", <<0, 0, 0, 0, 0, 0, 0, 0>>),
                   InMemory("bool", "%t", "t", <<0>>),
                   Immediate("bool", <<1>>),
                   InMemory("C", "%c", "c", <<>>),
                   Immediate("C", <<>>),
                   InMemory("dg", "%d", "d", <<>>),
                   Immediate("dg", <<>>),
                   InMemory("intarr", "%r", "r", <<>>),
                   Immediate("intarr", <<>>),
                   InMemory("cfloat", "%z", "z", <<>>),
                   Immediate("float", <<>>),
                   Painted(InMemory("intptr", "%q", "q", <<>>), <<"*", "i8">>),
                   Immediate("intptr", <<>>) >>
  /\ scopebb = <<>>
  /\ tf = <<>>
  /\ irFuncTys = <<>>
  /\ last = [op |-> "none"]
  /\ ops = 0

NextAssign == AssignValue

SpecAssign == InitAssign /\ [][NextAssign]_vars

-----------------------------------------------------------------------------
(* C11 *)

IsStructAssign ==
  /\ last.op = "DtoAssign"
  /\ DTypes[toBasetype(last.before[last.lhs].type)].ty = "Tstruct"

\* the instructions the last call emitted
Emitted == SubSeq(scopebb, last.nInstsBefore + 1, Len(scopebb))

\* C11: an assignment to a struct emits nothing and leaves every byte as it
\* was when the struct has no fields or when source and destination are the
\* same IR value; in every other case it emits exactly one memcpy from the
\* source's address to the destination's, after which the destination holds
\* the source's bytes.
C11_StructAssign ==
  IsStructAssign =>
    IF \/ last.before[last.lhs].type = "S0"
       \/ last.before[last.lhs].addr = last.before[last.rhs].addr
      THEN Emitted = <<>> /\ values = last.before
      ELSE /\ Emitted = <<[op |-> "memcpy", from |-> last.before[last.rhs].addr,
                           to |-> last.before[last.lhs].addr]>>
           /\ values[last.lhs].val.bits = last.before[last.rhs].val.bits
           /\ \A k \in 1..Len(values) :
                (inMemory(values[k]) /\ values[k].loc # values[last.lhs].loc)
                  => values[k] = last.before[k]

\* a = a, the variable evaluated into two Value objects with one address
C11_Witness ==
  /\ IsStructAssign
  /\ last.lhs = 1
  /\ last.rhs = 2
  /\ Emitted = <<>>

\* an empty struct assigned from another empty struct: nothing emitted
C11_WitnessEmpty ==
  /\ IsStructAssign
  /\ last.lhs = 5
  /\ last.rhs = 7
  /\ Emitted = <<>>

\* b = a: one memcpy
C11_WitnessCopy ==
  /\ IsStructAssign
  /\ last.lhs = 3
  /\ last.rhs = 1
  /\ Len(Emitted) = 1
  /\ values[3].val.bits = values[1].val.bits


-----------------------------------------------------------------------------
(***************************************************************************)
(* The 32-bit x86 ABI classifier (X86TargetABI).                           *)
(*                                                                         *)
(* A TypeFunction tf is lowered to an IrFuncTy descriptor: DtoFunctionType *)
(* asks returnInArg and passByVal while it builds the descriptor and then  *)
(* hands it to rewriteFunctionType, which mutates it in place.  A          *)
(* descriptor argument (IrFuncTyArg) carries the D type, the byref flag,   *)
(* the attribute set, the rewrite applied and the resulting IR type.       *)
(***************************************************************************)

\* the D types the signatures are built from: basic kind, size in bytes,
\* StructDeclaration::isPOD, presence of a constructor, number of fields and,
\* for the magic complex enums, the identifier of the enum
TypeInfo ==
  [void   |-> [ty |-> "Tvoid",      size |-> 1,  pod |-> TRUE,  ctor |-> FALSE, fields |-> 0, ident |-> ""],
   int    |-> [ty |-> "Tint32",     size |-> 4,  pod |-> TRUE,  ctor |-> FALSE, fields |-> 0, ident |-> ""],
   float  |-> [ty |-> "Tfloat32",   size |-> 4,  pod |-> TRUE,  ctor |-> FALSE, fields |-> 0, ident |-> ""],
   long   |-> [ty |-> "Tint64",     size |-> 8,  pod |-> TRUE,  ctor |-> FALSE, fields |-> 0, ident |-> ""],
   cfloat |-> [ty |-> "Tcomplex32", size |-> 8,  pod |-> TRUE,  ctor |-> FALSE, fields |-> 0, ident |-> ""],
   cdouble |-> [ty |-> "Tcomplex64", size |-> 16, pod |-> TRUE, ctor |-> FALSE, fields |-> 0, ident |-> ""],
   CF     |-> [ty |-> "Tenum",      size |-> 8,  pod |-> TRUE,  ctor |-> FALSE, fields |-> 0, ident |-> "__c_complex_float"],
   dg     |-> [ty |-> "Tdelegate",  size |-> 8,  pod |-> TRUE,  ctor |-> FALSE, fields |-> 0, ident |-> ""],
   sa4    |-> [ty |-> "Tsarray",    size |-> 4,  pod |-> TRUE,  ctor |-> FALSE, fields |-> 0, ident |-> ""],
   S3     |-> [ty |-> "Tstruct",    size |-> 3,  pod |-> TRUE,  ctor |-> FALSE, fields |-> 3, ident |-> ""],
   S4     |-> [ty |-> "Tstruct",    size |-> 4,  pod |-> TRUE,  ctor |-> FALSE, fields |-> 1, ident |-> ""],
   S8     |-> [ty |-> "Tstruct",    size |-> 8,  pod |-> TRUE,  ctor |-> FALSE, fields |-> 2, ident |-> ""],
   S16    |-> [ty |-> "Tstruct",    size |-> 16, pod |-> TRUE,  ctor |-> FALSE, fields |-> 4, ident |-> ""],
   CT4    |-> [ty |-> "Tstruct",    size |-> 4,  pod |-> TRUE,  ctor |-> TRUE,  fields |-> 1, ident |-> ""],
   NP8    |-> [ty |-> "Tstruct",    size |-> 8,  pod |-> FALSE, ctor |-> FALSE, fields |-> 2, ident |-> ""],
   E0     |-> [ty |-> "Tstruct",    size |-> 1,  pod |-> TRUE,  ctor |-> FALSE, fields |-> 0, ident |-> ""],
   NE0    |-> [ty |-> "Tstruct",    size |-> 1,  pod |-> FALSE, ctor |-> FALSE, fields |-> 0, ident |-> ""]]

\* the operating systems of the target triples and whether the environment
\* is MSVC (Win32 also comes with the MinGW environment)
Triples ==
  {[os |-> "Linux",   msvc |-> FALSE], [os |-> "Solaris", msvc |-> FALSE],
   [os |-> "NetBSD",  msvc |-> FALSE], [os |-> "FreeBSD", msvc |-> FALSE],
   [os |-> "Darwin",  msvc |-> FALSE], [os |-> "Win32",   msvc |-> TRUE],
   [os |-> "Win32",   msvc |-> FALSE]}

isDarwin(tgt) == tgt.os = "Darwin"

isMSVC(tgt) == tgt.msvc

\* the slip: every target is taken to return structs in registers
returnStructsInRegs_Always(tgt) == TRUE

returnStructsInRegs(tgt) == ~(tgt.os \in {"Linux", "Solaris", "NetBSD"})

\* TargetABI::isExternD: D linkage and not a C-style variadic function
isExternD(f) == f.linkage = "d" /\ f.varargs # "variadic"

\* TargetABI::isAggregate
isAggregate(t) ==
  TypeInfo[t].ty \in {"Tstruct", "Tsarray", "Tdelegate", "Tcomplex32", "Tcomplex64"}

abiIsComplex(t) == TypeInfo[t].ty \in {"Tcomplex32", "Tcomplex64"}

abiIsFloating(t) == TypeInfo[t].ty \in {"Tfloat32", "Tcomplex32", "Tcomplex64"}

\* TargetABI::isPOD
isPOD(t, excludeStructsWithCtor) ==
  IF TypeInfo[t].ty # "Tstruct" THEN TRUE
  ELSE TypeInfo[t].pod /\ ~(excludeStructsWithCtor /\ TypeInfo[t].ctor)

\* TargetABI::canRewriteAsInt with 64-bit integers included
canRewriteAsInt(t) == TypeInfo[t].size \in {1, 2, 4, 8}

DtoIsInMemoryOnly(t) == TypeInfo[t].ty \in {"Tstruct", "Tsarray"}

getExtraLoweredReturnType(f) ==
  IF TypeInfo[f.next].ty = "Tenum" /\ TypeInfo[f.next].ident = "__c_complex_float"
    THEN "cfloat"
    ELSE f.next

\* returnInArg for a function that does not return by reference
returnInArgValue(tgt, f, needsThis) ==
  LET rt == getExtraLoweredReturnType(f)
      externD == isExternD(f)
      isMSVCpp == isMSVC(tgt) /\ f.linkage = "cpp"
  IN IF ~isAggregate(rt) THEN FALSE
     ELSE IF abiIsComplex(rt)
       THEN (IF externD THEN FALSE ELSE TypeInfo[rt].ty # "Tcomplex32")
     ELSE IF ~externD /\ ~returnStructsInRegs(tgt) THEN TRUE
     ELSE IF isMSVCpp /\ needsThis /\ TypeInfo[rt].ty = "Tstruct" THEN TRUE
     ELSE IF ~isPOD(rt, isMSVCpp) THEN TRUE
     ELSE ~canRewriteAsInt(rt)

\* the slip: the reference-return shortcut is left out
returnInArg_IgnoresRef(tgt, f, needsThis) == returnInArgValue(tgt, f, needsThis)

returnInArg(tgt, f, needsThis) ==
  IF f.isref THEN FALSE ELSE returnInArgValue(tgt, f, needsThis)

\* the slip: the answer depends on how often the classifier has run
passByVal_Stateful(tgt, f, t) == ops = 0 /\ DtoIsInMemoryOnly(t)

passByVal(tgt, f, t) ==
  LET isMSVCpp == isMSVC(tgt) /\ f.linkage = "cpp"
  IN IF ~isMSVCpp /\ ~isPOD(t, FALSE) THEN FALSE ELSE DtoIsInMemoryOnly(t)

\* the IR type of a descriptor argument before any rewrite
abiLType(t, byref) == IF byref THEN <<"ptr", t>> ELSE <<"type", t>>

NoArg ==
  [present |-> FALSE, type |-> "void", byref |-> FALSE, attrs |-> {},
   rewrite |-> "none", ltype |-> <<>>]

IrFuncTyArg(t, byref, attrs) ==
  [present |-> TRUE, type |-> t, byref |-> byref, attrs |-> attrs,
   rewrite |-> "none", ltype |-> abiLType(t, byref)]

isByVal(arg) == "ByVal" \in arg.attrs

\* IntegerRewrite: the argument is passed as an integer of its size
integerRewriteApplyTo(arg) ==
  [arg EXCEPT !.rewrite = "integerRewrite",
              !.ltype = <<"int", TypeInfo[arg.type].size>>]

\* obsolete when the IR type already is the integer of that size
integerRewriteApplyToIfNotObsolete(arg) ==
  IF arg.ltype = <<"int", TypeInfo[arg.type].size>> THEN arg
  ELSE integerRewriteApplyTo(arg)

\* IndirectByvalRewrite: the address of a caller-made temporary is passed
indirectByvalRewriteApplyTo(arg) ==
  [arg EXCEPT !.rewrite = "indirectByvalRewrite",
              !.ltype = <<"ptr", arg.type>>,
              !.attrs = {"NoAlias", "NoCapture", "Alignment"}]

\* TargetABI::skipReturnValueRewrite
skipReturnValueRewrite(fty) == fty.ret.byref \/ TypeInfo[fty.ret.type].ty = "Tvoid"

Step(fty, name) == [fty EXCEPT !.steps = Append(@, name)]

\* the slip: the return slot is never rewritten
RewriteReturn_Never(fty) == Step(fty, "return")

\* return value
RewriteReturn(fty) ==
  LET rt == getExtraLoweredReturnType(fty.type)
  IN IF ~skipReturnValueRewrite(fty)
        /\ isAggregate(rt) /\ canRewriteAsInt(rt)
        /\ ~(isExternD(fty.type) /\ TypeInfo[rt].ty = "Tcomplex32")
       THEN Step([fty EXCEPT !.ret = integerRewriteApplyToIfNotObsolete(@)], "return")
       ELSE Step(fty, "return")

\* the slip: no argument is passed indirectly by value
RewriteNonPODArgs_None(tgt, fty) == Step(fty, "nonPOD")

\* non-POD args are passed indirectly by-value (except for MSVC++)
RewriteNonPODArgs(tgt, fty) ==
  IF ~(isMSVC(tgt) /\ fty.type.linkage = "cpp")
    THEN Step([fty EXCEPT !.args =
                 [i \in DOMAIN @ |->
                    IF ~@[i].byref /\ ~isPOD(@[i].type, FALSE)
                      THEN indirectByvalRewriteApplyTo(@[i]) ELSE @[i]]],
              "nonPOD")
    ELSE Step(fty, "nonPOD")

\* the slip: the size and floating-point conditions are left out
LastArgInReg_AnySize(arg) ==
  IF arg.rewrite = "indirectByvalRewrite" \/ (arg.byref /\ ~isByVal(arg))
    THEN [arg EXCEPT !.attrs = @ \cup {"InReg"}]
  ELSE IF TypeInfo[arg.type].ty \in {"Tstruct", "Tsarray"}
    THEN [integerRewriteApplyTo(arg) EXCEPT !.byref = FALSE, !.attrs = {"InReg"}]
  ELSE [arg EXCEPT !.attrs = @ \cup {"InReg"}]

\* ... otherwise try the last argument
LastArgInReg(arg) ==
  IF arg.rewrite = "indirectByvalRewrite" \/ (arg.byref /\ ~isByVal(arg))
    THEN [arg EXCEPT !.attrs = @ \cup {"InReg"}]
  ELSE IF ~abiIsFloating(arg.type) /\ TypeInfo[arg.type].size \in {1, 2, 4}
    THEN IF TypeInfo[arg.type].ty \in {"Tstruct", "Tsarray"}
           THEN [integerRewriteApplyTo(arg) EXCEPT !.byref = FALSE, !.attrs = {"InReg"}]
           ELSE [arg EXCEPT !.attrs = @ \cup {"InReg"}]
  ELSE arg

\* the slip: the sret pointer is put in the register next to an implicit
\* argument, and keeps its StructRet
PassInEAX_SretToo(fty) ==
  Bind(IF fty.arg_this.present THEN [fty EXCEPT !.arg_this.attrs = @ \cup {"InReg"}]
       ELSE IF fty.arg_nest.present THEN [fty EXCEPT !.arg_nest.attrs = @ \cup {"InReg"}]
       ELSE IF fty.args # <<>> /\ ~fty.arg_sret.present
         THEN [fty EXCEPT !.args[Len(fty.args)] = LastArgInReg(@)]
       ELSE fty, LAMBDA f :
    IF f.arg_sret.present THEN [f EXCEPT !.arg_sret.attrs = @ \cup {"InReg"}] ELSE f)

\* try an implicit argument, otherwise the last argument
PassInEAX(fty) ==
  IF fty.arg_this.present THEN [fty EXCEPT !.arg_this.attrs = @ \cup {"InReg"}]
  ELSE IF fty.arg_nest.present THEN [fty EXCEPT !.arg_nest.attrs = @ \cup {"InReg"}]
  ELSE IF fty.arg_sret.present
    THEN [fty EXCEPT !.arg_sret.attrs = (@ \ {"StructRet"}) \cup {"InReg"}]
  ELSE IF fty.args # <<>>
    THEN [fty EXCEPT !.args[Len(fty.args)] = LastArgInReg(@)]
  ELSE fty

\* the slip: the register heuristic runs for every linkage
TryInReg_AnyLinkage(fty) == Step(PassInEAX(fty), "inreg")

\* extern(D): try passing an argument in EAX
TryInReg(fty) ==
  IF isExternD(fty.type) THEN Step(PassInEAX(fty), "inreg") ELSE Step(fty, "inreg")

\* MSVC targets don't support alignment attributes for LL byval args
workaroundIssue1356(tgt, args) ==
  IF isMSVC(tgt)
    THEN [i \in DOMAIN args |->
            IF isByVal(args[i]) THEN [args[i] EXCEPT !.attrs = @ \ {"Alignment"}]
            ELSE args[i]]
    ELSE args

isEmptyStruct(arg) == TypeInfo[arg.type].ty = "Tstruct" /\ TypeInfo[arg.type].fields = 0

RECURSIVE eraseEmptyStructs(_)
eraseEmptyStructs(args) ==
  IF args = <<>> THEN <<>>
  ELSE IF isEmptyStruct(Head(args)) THEN eraseEmptyStructs(Tail(args))
  ELSE <<Head(args)>> \o eraseEmptyStructs(Tail(args))

Issue1356(tgt, fty) ==
  Step([fty EXCEPT !.args = workaroundIssue1356(tgt, @)], "issue1356")

\* Darwin, not extern(D): empty structs are not passed at all; beforeErase
\* keeps the argument list the loop started from
EmptyStructs(tgt, fty) ==
  IF isExternD(fty.type) \/ ~isDarwin(tgt) THEN fty
  ELSE Step([fty EXCEPT !.args = eraseEmptyStructs(@), !.beforeErase = fty.args],
            "emptyStructs")

\* the slip: the target-specific exceptions run before the other rewrites
rewriteFunctionType_ExceptionsFirst(tgt, fty) ==
  TryInReg(RewriteNonPODArgs(tgt, RewriteReturn(EmptyStructs(tgt, Issue1356(tgt, fty)))))

rewriteFunctionType(tgt, fty) ==
  EmptyStructs(tgt, Issue1356(tgt, TryInReg(RewriteNonPODArgs(tgt, RewriteReturn(fty)))))

\* one explicit parameter as DtoFunctionType lowers it
ParamArg(tgt, f, p) ==
  IF p.ref THEN IrFuncTyArg(p.type, TRUE, {"Dereferenceable"})
  ELSE IF passByVal(tgt, f, p.type)
    THEN IrFuncTyArg(p.type, TRUE, {"ByVal", "Alignment"})
  ELSE IrFuncTyArg(p.type, FALSE, {})

\* DtoFunctionType: builds the descriptor of f and lets the ABI rewrite it
DtoFunctionType(tgt, f) ==
  LET sret == returnInArg(tgt, f, f.implicit = "this")
      byref == f.isref /\ TypeInfo[f.next].ty # "Tvoid"
  IN rewriteFunctionType(tgt,
       [type |-> f,
        arg_sret |-> IF sret
                       THEN IrFuncTyArg(f.next, TRUE, {"StructRet", "NoAlias", "Alignment"})
                       ELSE NoArg,
        ret |-> IrFuncTyArg(IF sret THEN "void" ELSE f.next, byref, {}),
        arg_this |-> IF f.implicit = "this" THEN IrFuncTyArg("int", FALSE, {}) ELSE NoArg,
        arg_nest |-> IF f.implicit = "nest" THEN IrFuncTyArg("int", FALSE, {}) ELSE NoArg,
        args |-> [i \in DOMAIN f.params |-> ParamArg(tgt, f, f.params[i])],
        beforeErase |-> <<>>,
        steps |-> <<>>])

\* the lowering of the signature: one more descriptor for the same tf
ClassifySignature ==
  /\ ops < MaxClassifyOps
  /\ irFuncTys' = Append(irFuncTys, DtoFunctionType(target, tf))
  /\ last' = [op |-> "DtoFunctionType", n |-> Len(irFuncTys) + 1]
  /\ ops' = ops + 1
  /\ UNCHANGED <<target, tf, module, errors, aborted, gag, gaggedErrors,
                 stringLiteralCache, structLiteralCache, inuse, overflow, castVars>>

\* the return types, with and without ref
Returns ==
  {[next |-> t, isref |-> FALSE] :
     t \in {"void", "int", "cfloat", "cdouble", "CF", "dg", "sa4", "S3", "S8", "S16",
            "CT4", "NP8", "E0"}}
  \cup {[next |-> t, isref |-> TRUE] : t \in {"int", "S8", "S16", "NP8"}}

\* the explicit parameters: by value or by ref
LastParams ==
  {[type |-> t, ref |-> FALSE] :
     t \in {"int", "float", "long", "sa4", "S3", "S4", "S8", "NP8", "E0", "NE0"}}
  \cup {[type |-> t, ref |-> TRUE] : t \in {"S8", "E0"}}

FirstParams ==
  {[type |-> t, ref |-> FALSE] : t \in {"int", "S8", "NP8", "E0"}}

ParameterLists ==
  {<<>>} \cup {<<p>> : p \in LastParams}
         \cup {<<p, q>> : p \in FirstParams, q \in LastParams}

Linkages ==
  {[linkage |-> "d", varargs |-> "none"], [linkage |-> "d", varargs |-> "variadic"],
   [linkage |-> "c", varargs |-> "none"], [linkage |-> "cpp", varargs |-> "none"]}

TypeFunctions ==
  {[linkage |-> l.linkage, varargs |-> l.varargs, next |-> r.next, isref |-> r.isref,
    params |-> ps, implicit |-> im] :
     l \in Linkages, r \in Returns, ps \in ParameterLists,
     im \in {"none", "this", "nest"}}

InitABI ==
  /\ target \in Triples
  /\ tf \in TypeFunctions
  /\ irFuncTys = <<>>
  /\ module = <<>>
  /\ errors = 0
  /\ aborted = FALSE
  /\ gag = 0
  /\ gaggedErrors = 0
  /\ stringLiteralCache = <<>>
  /\ structLiteralCache = <<>>
  /\ inuse = <<>>
  /\ overflow = FALSE
  /\ values = <<>>
  /\ scopebb = <<>>
  /\ last = [op |-> "none"]
  /\ ops = 0

NextABI == ClassifySignature

SpecABI == InitABI /\ [][NextABI]_vars

-----------------------------------------------------------------------------
(***************************************************************************)
(* Properties of the x86 ABI classifier, stated over the descriptors       *)
(* built so far.                                                           *)
(***************************************************************************)

Descriptors == {irFuncTys[i] : i \in DOMAIN irFuncTys}

HasInReg(arg) == arg.present /\ "InReg" \in arg.attrs

\* the explicit arguments of a descriptor before any of them was deleted
AllArgs(fty) == IF fty.beforeErase # <<>> THEN fty.beforeErase ELSE fty.args

\* C12: returnInArg is false for every function type that returns by
\* reference, whatever the return type, linkage and target; the descriptor of
\* such a function has no hidden sret argument.
C12_RefReturnNeverSret ==
  tf # <<>> /\ tf.isref =>
    /\ \A needsThis \in BOOLEAN : ~returnInArg(target, tf, needsThis)
    /\ \A fty \in Descriptors : ~fty.arg_sret.present

\* a reference-returning function whose 16-byte struct would otherwise go
\* through sret has been lowered
C12_Witness ==
  /\ irFuncTys # <<>>
  /\ tf.isref /\ tf.next = "S16" /\ tf.linkage = "c"
  /\ target.os = "Linux"
  /\ returnInArgValue(target, tf, FALSE)
  /\ ~irFuncTys[1].arg_sret.present

\* C13: a function that does not return by reference and returns an 8-byte
\* POD struct, on a non-MSVC target that returns structs in registers, gets
\* no sret argument (returnInArg is false) and its return slot is rewritten
\* as a 64-bit integer.
C13_SmallPODStructInRegisters ==
  tf # <<>> /\ ~tf.isref /\ tf.next = "S8" /\ ~target.msvc
    /\ target.os \notin {"Linux", "Solaris", "NetBSD"} =>
      /\ \A needsThis \in BOOLEAN : ~returnInArg(target, tf, needsThis)
      /\ \A fty \in Descriptors :
           /\ ~fty.arg_sret.present
           /\ fty.ret.type = "S8"
           /\ fty.ret.rewrite = "integerRewrite"
           /\ fty.ret.ltype = <<"int", 8>>

C13_Witness ==
  /\ irFuncTys # <<>>
  /\ ~tf.isref /\ tf.next = "S8" /\ tf.linkage = "c"
  /\ target.os = "Darwin"
  /\ irFuncTys[1].ret.rewrite = "integerRewrite"

\* C14: on Linux, Solaris and NetBSD every function that is not extern(D),
\* does not return by reference and returns a non-complex aggregate has
\* returnInArg true, whatever the size or POD-ness of the aggregate: its
\* descriptor has the sret argument and the return slot is not rewritten.
C14_NoRegisterReturnTargets ==
  tf # <<>> /\ target.os \in {"Linux", "Solaris", "NetBSD"}
    /\ ~(tf.linkage = "d" /\ tf.varargs # "variadic") /\ ~tf.isref
    /\ TypeInfo[tf.next].ty \in {"Tstruct", "Tsarray", "Tdelegate"} =>
      /\ \A needsThis \in BOOLEAN : returnInArg(target, tf, needsThis)
      /\ \A fty \in Descriptors :
           /\ fty.arg_sret.present
           /\ fty.arg_sret.type = tf.next
           /\ fty.ret.rewrite = "none"

\* the 8-byte POD struct that other targets return in registers
C14_Witness ==
  /\ irFuncTys # <<>>
  /\ target.os = "NetBSD"
  /\ tf.linkage = "cpp" /\ ~tf.isref /\ tf.next = "S8"
  /\ irFuncTys[1].arg_sret.present
  /\ "StructRet" \in irFuncTys[1].arg_sret.attrs

C16_InRegOnlyExternD ==
  \A fty \in Descriptors :
    (\/ HasInReg(fty.arg_this) \/ HasInReg(fty.arg_nest) \/ HasInReg(fty.arg_sret)
     \/ \E k \in DOMAIN fty.args : HasInReg(fty.args[k]))
      => fty.type.linkage = "d" /\ fty.type.varargs # "variadic"

\* a C++ method with a this pointer and a small last argument
C16_Witness ==
  /\ irFuncTys # <<>>
  /\ tf.linkage = "cpp" /\ tf.implicit = "this"
  /\ tf.params = <<[type |-> "int", ref |-> FALSE]>>
  /\ ~HasInReg(irFuncTys[1].arg_this)

\* extern(D) does put an argument into the register
C16_WitnessExternD ==
  /\ irFuncTys # <<>>
  /\ tf.linkage = "d" /\ tf.varargs = "none" /\ tf.implicit = "this"
  /\ HasInReg(irFuncTys[1].arg_this)

\* the last explicit parameter of the signature is passed by value: it is
\* neither a ref parameter nor passed indirectly as a non-POD
LastByValue(fty) ==
  /\ fty.type.linkage = "d" /\ fty.type.varargs # "variadic"
  /\ ~fty.arg_this.present /\ ~fty.arg_nest.present /\ ~fty.arg_sret.present
  /\ fty.type.params # <<>>
  /\ ~fty.type.params[Len(fty.type.params)].ref
  /\ TypeInfo[fty.type.params[Len(fty.type.params)].type].pod

\* C17: under extern(D) without this, context or sret argument, the last
\* explicit argument passed by value has InReg only if its type is not
\* floating point and its size is 1, 2 or 4 bytes; a struct or static array
\* that is put in the register is rewritten as an integer, is no longer byref
\* and carries no attribute but InReg.
C17_LastArgInRegister ==
  \A fty \in Descriptors :
    LastByValue(fty) /\ HasInReg(fty.args[Len(fty.args)]) =>
      LET arg == fty.args[Len(fty.args)]
      IN /\ TypeInfo[arg.type].ty \notin {"Tfloat32", "Tcomplex32", "Tcomplex64"}
         /\ TypeInfo[arg.type].size \in {1, 2, 4}
         /\ TypeInfo[arg.type].ty \in {"Tstruct", "Tsarray"} =>
              /\ arg.rewrite = "integerRewrite"
              /\ arg.ltype = <<"int", TypeInfo[arg.type].size>>
              /\ ~arg.byref
              /\ arg.attrs = {"InReg"}

\* a 4-byte struct as the last argument goes into the register as an integer
C17_Witness ==
  /\ irFuncTys # <<>>
  /\ LastByValue(irFuncTys[1])
  /\ tf.params = <<[type |-> "int", ref |-> FALSE], [type |-> "S4", ref |-> FALSE]>>
  /\ irFuncTys[1].args[2].rewrite = "integerRewrite"
  /\ irFuncTys[1].args[2].attrs = {"InReg"}
  /\ ~HasInReg(irFuncTys[1].args[1])

\* a 3-byte struct and an 8-byte struct stay on the stack
C17_WitnessNotInRegister ==
  /\ irFuncTys # <<>>
  /\ LastByValue(irFuncTys[1])
  /\ tf.params[Len(tf.params)].type \in {"S3", "S8", "long", "float"}
  /\ ~HasInReg(irFuncTys[1].args[Len(tf.params)])

NotEmptyStruct(arg) ==
  ~(TypeInfo[arg.type].ty = "Tstruct" /\ TypeInfo[arg.type].fields = 0)

\* C18: the MSVC alignment workaround and the Darwin deletion of empty
\* structs are the last two steps of rewriteFunctionType, after the return
\* rewrite, the non-POD rewrite and the register heuristic.  The deletion
\* runs only on Darwin for functions that are not extern(D); it removes
\* exactly the arguments whose type is a struct without fields and keeps the
\* others in order.  On MSVC no byval argument keeps the alignment attribute.
C18_TargetExceptionsLast ==
  \A fty \in Descriptors :
    LET erases == target.os = "Darwin"
                  /\ ~(fty.type.linkage = "d" /\ fty.type.varargs # "variadic")
    IN /\ fty.steps = IF erases
                        THEN <<"return", "nonPOD", "inreg", "issue1356", "emptyStructs">>
                        ELSE <<"return", "nonPOD", "inreg", "issue1356">>
       /\ erases =>
            /\ Len(fty.beforeErase) = Len(fty.type.params)
            /\ \A k \in DOMAIN fty.beforeErase :
                 fty.beforeErase[k].type = fty.type.params[k].type
            /\ fty.args = SelectSeq(fty.beforeErase, NotEmptyStruct)
       /\ ~erases =>
            /\ Len(fty.args) = Len(fty.type.params)
            /\ \A k \in DOMAIN fty.args : fty.args[k].type = fty.type.params[k].type
       /\ target.msvc =>
            \A k \in DOMAIN fty.args :
              isByVal(fty.args[k]) => "Alignment" \notin fty.args[k].attrs

\* Darwin, extern(C): the empty struct is deleted, the int after it is kept
C18_Witness ==
  /\ irFuncTys # <<>>
  /\ target.os = "Darwin" /\ tf.linkage = "c"
  /\ tf.params = <<[type |-> "E0", ref |-> FALSE], [type |-> "int", ref |-> FALSE]>>
  /\ Len(irFuncTys[1].args) = 1
  /\ irFuncTys[1].args[1].type = "int"

\* MSVC: a byval struct has lost its alignment attribute
C18_WitnessMSVC ==
  /\ irFuncTys # <<>>
  /\ target.msvc /\ tf.linkage = "c"
  /\ tf.params = <<[type |-> "S8", ref |-> FALSE]>>
  /\ irFuncTys[1].args[1].attrs = {"ByVal"}

\* C19: in a function that is not MSVC C++, every non-POD argument that is
\* not byref is rewritten to indirect-by-value and passByVal is false for its
\* type; passByVal is true for every POD struct and static array; no argument
\* is both rewritten to indirect-by-value and tagged ByVal.
C19_NonPODIndirectPODByVal ==
  \A fty \in Descriptors :
    ~(target.msvc /\ fty.type.linkage = "cpp") =>
      \A k \in DOMAIN fty.type.params :
        LET p == fty.type.params[k]
            arg == AllArgs(fty)[k]
        IN /\ ~TypeInfo[p.type].pod /\ ~p.ref =>
                /\ arg.rewrite = "indirectByvalRewrite"
                /\ ~passByVal(target, fty.type, p.type)
           /\ TypeInfo[p.type].pod /\ TypeInfo[p.type].ty \in {"Tstruct", "Tsarray"} =>
                passByVal(target, fty.type, p.type)
           /\ ~(arg.rewrite = "indirectByvalRewrite" /\ isByVal(arg))

\* a non-POD struct and a POD struct passed by value to a C function
C19_Witness ==
  /\ irFuncTys # <<>>
  /\ tf.linkage = "c" /\ target.os = "Linux"
  /\ tf.params = <<[type |-> "NP8", ref |-> FALSE], [type |-> "S8", ref |-> FALSE]>>
  /\ irFuncTys[1].args[1].rewrite = "indirectByvalRewrite"
  /\ ~irFuncTys[1].args[1].byref
  /\ isByVal(irFuncTys[1].args[2])

-----------------------------------------------------------------------------
(***************************************************************************)
(* An integer constant as an initializer and as a run-time value.          *)
(*                                                                         *)
(* The initializer of a variable of type t is fitted to t by               *)
(* DtoConstExpInit; the same expression met in a function body is lowered  *)
(* to a DConstValue holding the folded constant and converted to t by      *)
(* DtoCast.  Both are run on the same expression and type, one after the   *)
(* other.                                                                  *)
(***************************************************************************)

IntegerConstants == {e \in ExpIds : Exps[e].op = "IntegerExp"}

IntegerTargets == {"byte", "ubyte", "short", "ushort", "int", "uint", "long", "ulong"}

IntegerBitWidth(ty) == [i1 |-> 1, i8 |-> 8, i16 |-> 16, i32 |-> 32, i64 |-> 64][ty[1]]

\* the initializer exp of a variable of the wider integer type t is folded
ConstExpInit ==
  /\ ~aborted
  /\ ops < MaxParityOps
  /\ last.op # "DtoConstExpInit"
  /\ \E e \in IntegerConstants : \E t \in IntegerTargets :
       /\ IntegerBitWidth(DtoType(Exps[e].type)) < IntegerBitWidth(DtoType(t))
       /\ Bind(DtoConstExpInit(FoldState, t, e, 0), LAMBDA r :
            /\ Leaves(r.st)
            /\ last' = [op |-> "DtoConstExpInit", exp |-> e, type |-> t, c |-> r.c])
  /\ ops' = ops + 1
  /\ UNCHANGED <<target, castVars, abiVars>>

\* the same expression as a run-time value, cast to the same type
LowerAndCast ==
  /\ ~aborted
  /\ last.op = "DtoConstExpInit"
  /\ Bind(visitIntegerExp(last.exp, FoldState), LAMBDA k :
     Bind(New(CastState, "DConstValue", Exps[last.exp].type, LLValue(k.c.ty, k.c.v), 0),
          LAMBDA s :
     Bind(DtoCast(s.st, s.d, last.type), LAMBDA r :
       /\ values' = r.st.values
       /\ scopebb' = r.st.scopebb
       /\ errors' = r.st.errors
       /\ gaggedErrors' = r.st.gaggedErrors
       /\ aborted' = r.st.aborted
       /\ last' = [op |-> "DtoCast", exp |-> last.exp, type |-> last.type, c |-> last.c,
                   val |-> s.d, ret |-> r.d])))
  /\ UNCHANGED <<target, module, gag, stringLiteralCache, structLiteralCache, inuse,
                 overflow, abiVars, ops>>

InitParity ==
  /\ target = [arch |-> "x86", windows |-> FALSE, threadModel |-> clThreadModelDefault]
  /\ module = <<>>
  /\ errors = 0
  /\ aborted = FALSE
  /\ gag \in {0, 1}
  /\ gaggedErrors = 0
  /\ stringLiteralCache = <<>>
  /\ structLiteralCache = <<>>
  /\ inuse = <<>>
  /\ overflow = FALSE
  /\ values = <<>>
  /\ scopebb = <<>>
  /\ tf = <<>>
  /\ irFuncTys = <<>>
  /\ last = [op |-> "none"]
  /\ ops = 0

NextParity == ConstExpInit \/ LowerAndCast

SpecParity == InitParity /\ [][NextParity]_vars

\* C20: for an integer constant whose IR type is narrower than the target
\* integer type, the constant DtoConstExpInit returns has the type and the
\* value of the result of DtoCastInt on the same source value and target
\* type, for signed and unsigned source types alike.
C20_InitializerMatchesCast ==
  last.op = "DtoCast" =>
    /\ last.c.k = "int"
    /\ last.c.ty = values[last.ret].val.ty
    /\ last.c.v = values[last.ret].val.bits

\* the two disagree on a negative constant of a signed type: the initializer
\* is zero-extended, the run-time value sign-extended
C20_SignedDisagree ==
  /\ last.op = "DtoCast"
  /\ last.exp = "s_m1" /\ last.type = "int"
  /\ last.c.v = <<255, 255, 0, 0>>
  /\ values[last.ret].val.bits = <<255, 255, 255, 255>>
  /\ scopebb[Len(scopebb)].op = "sext"

\* the two agree whenever the source type is unsigned, bool included, or the
\* constant is not negative
C20_UnsignedOrNonNegativeAgree ==
  last.op = "DtoCast"
    /\ (isLLVMUnsigned(Exps[last.exp].type) \/ Exps[last.exp].type = "bool"
        \/ Exps[last.exp].n >= 0) =>
      /\ last.c.k = "int"
      /\ last.c.ty = values[last.ret].val.ty
      /\ last.c.v = values[last.ret].val.bits

C20_UnsignedAgree ==
  /\ last.op = "DtoCast"
  /\ last.exp = "us_max" /\ last.type = "long"
  /\ last.c.v = <<255, 255, 0, 0, 0, 0, 0, 0>>
  /\ values[last.ret].val.bits = last.c.v

-----------------------------------------------------------------------------
(* C21 *)

\* the helper that handles a source of the remaining categories
RemainingCategory(ty) ==
  CASE ty = "Tclass" -> "DtoCastClass"
    [] ty \in {"Tarray", "Tsarray"} -> "DtoCastArray"
    [] ty \in {"Tpointer", "Tfunction"} -> "DtoCastPtr"
    [] ty = "Tdelegate" -> "DtoCastDelegate"
    [] ty = "Tstruct" -> "DtoCastStruct"
    [] ty \in {"Tnull", "Tnoreturn"} -> "DtoNullValue"
    [] OTHER -> "default"

\* C21: DtoCast picks the branch by the category of the source's base type
\* in this order: the associative array cases (to an associative array, a
\* pointer or bool), the same-type shortcut, vector, integral, complex,
\* floating, then the remaining categories.  A vector source cast to another
\* type goes to DtoCastVector although an integer vector is integral, and a
\* complex source never goes to DtoCastFloat although it is floating.
C21_DispatchOrder ==
  IsCast =>
    /\ last.by =
         IF DTypes[LastFrom].ty = "Taarray" /\ DTypes[LastTo].ty \in {"Taarray", "Tpointer", "Tbool"}
           THEN "associative array"
         ELSE IF LastFrom = LastTo THEN "same type"
         ELSE IF DTypes[LastFrom].ty = "Tvector" THEN "DtoCastVector"
         ELSE IF isintegral(LastFrom) THEN "DtoCastInt"
         ELSE IF iscomplex(LastFrom) THEN "DtoCastComplex"
         ELSE IF isfloating(LastFrom) THEN "DtoCastFloat"
         ELSE RemainingCategory(DTypes[LastFrom].ty)
    /\ (DTypes[LastFrom].ty = "Tvector" /\ LastFrom # LastTo) => last.by = "DtoCastVector"
    /\ iscomplex(LastFrom) => last.by # "DtoCastFloat"

\* an integer vector, which is integral, cast to another vector type
C21_Witness ==
  /\ IsCast
  /\ LastFrom = "int4"
  /\ isintegral(LastFrom)
  /\ LastTo = "float4"
  /\ last.by = "DtoCastVector"

\* a complex value, which is floating, cast to a float
C21_WitnessComplex ==
  /\ IsCast
  /\ LastFrom = "cfloat"
  /\ isfloating(LastFrom)
  /\ LastTo = "float"
  /\ last.by = "DtoCastComplex"


-----------------------------------------------------------------------------
(* Storage model: makeLValue, DtoAllocaDump, makeVarDValue *)

\* DtoAlloca(Type*): a slot of the type's memory type, aligned for the type
DtoAlloca(st, type) == DtoRawAlloca(st, DtoMemType(type), DtoAlignment(type))

\* DtoAllocaDump(DValue*, LLType* asType, int alignment): an lvalue is copied
\* into the new slot with one memcpy, any other value is stored into it
DtoAllocaDumpDValue(st, i, asType, alignment) ==
  IF isLVal(st, i)
    THEN Bind(DtoRawAlloca(st, i1ToI8(asType), alignment), LAMBDA copy :
           [st |-> Live(copy.st, [copy.st EXCEPT !.scopebb =
                      Append(@, [op |-> "memcpy", from |-> <<"*">> \o st.values[i].val.ty,
                                 to |-> copy.v.ty,
                                 bytes |-> Min({TypeAllocSize(st.values[i].val.ty),
                                               TypeAllocSize(i1ToI8(asType))})])]),
            v |-> LLValue(copy.v.ty, st.values[i].val.bits)])
    ELSE Bind(DtoRVal(st, i), LAMBDA r : DtoAllocaDump(r.st, r.v, asType, alignment))

\* the values the storage operations are given: the dereference of a special
\* reference is DSpecialRefValue's own and not followed here
Plain(v) == v.kind # "DSpecialRefValue"

\* the address returned: an address that existed (addr), or the slot the
\* instruction at index `slot` of the block allocated
Existing(r, addr) == [st |-> r.st, v |-> r.v, addr |-> addr, slot |-> 0]

Slot(r, k) == [st |-> r.st, v |-> r.v, addr |-> "", slot |-> k]

\* the temporary DLValue of makeLValue's last branch, and its end
Temporary(st, type, mem) ==
  [st EXCEPT !.values = Append(@, [type |-> type, kind |-> "DLValue",
                                   val |-> LLValue(DtoType(type), <<>>), from |-> 0,
                                   addr |-> ".makelvaluetmp", loc |-> ".makelvaluetmp"])]

Destroyed(st, n) == Live(st, [st EXCEPT !.values = SubSeq(@, 1, n)])

\* the slip: the value is spilled whether it has an address or not
makeLValue_AlwaysSpill(st, i) ==
  Slot(DtoAllocaDumpDValue(st, i, DtoType(st.values[i].type),
                           DtoAlignment(st.values[i].type)),
       Len(st.scopebb) + 1)

\* makeLValue
makeLValue(st, i) ==
  LET value == st.values[i]
  IN IF isLVal(st, i) THEN Existing(DtoLVal(st, i), value.addr)
     ELSE IF value.kind \in {"DImValue", "DConstValue"} THEN
       Slot(DtoAllocaDumpDValue(st, i, DtoType(value.type), DtoAlignment(value.type)),
            Len(st.scopebb) + 1)
     ELSE
       Bind(DtoAlloca(st, value.type), LAMBDA mem :
         Slot([st |-> Destroyed(DtoAssign(Temporary(mem.st, value.type, mem.v),
                                          Len(st.values) + 1, i),
                                Len(st.values)),
               v |-> LLValue(mem.v.ty, value.val.bits)],
              Len(st.scopebb) + 1))

\* assert(cond): the process ends where the condition is false
assert(st, cond) ==
  IF cond THEN st
  ELSE Live(st, [st EXCEPT !.aborted = TRUE, !.diags = @ \cup {"assert"}])

\* new DLValue(type, val) / new DSpecialRefValue(type, val): the value at the
\* variable's address
NewVar(st, kind, type, ident) ==
  [st |-> Live(st, [st EXCEPT !.values =
             Append(@, [InMemory(type, "%" \o ident, ident, <<>>) EXCEPT !.kind = kind])]),
   d |-> IF st.aborted THEN 0 ELSE Len(st.values) + 1]

\* makeVarDValue(type, vd, storage): vd carries what the function reads of the
\* declaration; storage is the address given, or the variable's IR value
makeVarDValue(st, type, vd, storage) ==
  LET memType == DtoMemType(type)
      expectedType == IF vd.isSpecialRefVar THEN <<"*", "*">> \o memType
                                            ELSE <<"*">> \o memType
      pointeeType == IF vd.isSpecialRefVar THEN Tail(Tail(storage.ty)) ELSE Tail(storage.ty)
      kind == IF vd.isSpecialRefVar THEN "DSpecialRefValue" ELSE "DLValue"
  IN IF storage.ty # expectedType THEN
       Bind(assert(st, vd.isDataseg \/ vd.isExtern
                         \/ DTypes[toBasetype(type)].ty \in {"Tclass", "Tsarray"}),
            LAMBDA a :
         Bind(assert(a, TypeStoreSize(DtoType(type)) <= TypeStoreSize(pointeeType)),
              LAMBDA b :
           Bind(CreateBitCast(b, storage, expectedType), LAMBDA val :
             NewVar(val.st, kind, type, vd.ident))))
     ELSE NewVar(st, kind, type, vd.ident)

StorageLeaves(st) ==
  /\ values' = st.values
  /\ scopebb' = st.scopebb
  /\ errors' = st.errors
  /\ gaggedErrors' = st.gaggedErrors
  /\ aborted' = st.aborted
  /\ ops' = ops + 1
  /\ UNCHANGED <<target, module, gag, stringLiteralCache, structLiteralCache, inuse,
                 overflow, abiVars>>

MakeLValue ==
  /\ ~aborted
  /\ ops < MaxStorageOps
  /\ \E i \in {k \in 1..Len(values) : Plain(values[k])} :
       Bind(makeLValue(CastState, i), LAMBDA r :
         /\ StorageLeaves(r.st)
         /\ last' = [op |-> "makeLValue", val |-> i, before |-> values,
                     nInstsBefore |-> Len(scopebb), ret |-> r.v, addr |-> r.addr,
                     slot |-> r.slot])

\* the types a value is dumped as
DumpTypes == {"bool", "short", "int4"}

\* DtoAllocaDump(DValue*, Type* asType)
AllocaDump ==
  /\ ~aborted
  /\ ops < MaxStorageOps
  /\ \E i \in {k \in 1..Len(values) : Plain(values[k])} : \E asType \in DumpTypes :
       Bind(DtoAllocaDumpDValue(CastState, i, DtoType(asType), DtoAlignment(asType)),
            LAMBDA r :
         /\ StorageLeaves(r.st)
         /\ last' = [op |-> "DtoAllocaDump", val |-> i, asType |-> asType,
                     before |-> values, nInstsBefore |-> Len(scopebb), ret |-> r.v])

\* the declared types of the variables, what the function reads of their
\* declarations, and the IR types their storage points to
VarTypes == {"int", "long", "char3"}

VarDeclarations ==
  {[ident |-> "g", isDataseg |-> TRUE, isExtern |-> FALSE, isSpecialRefVar |-> FALSE],
   [ident |-> "e", isDataseg |-> FALSE, isExtern |-> TRUE, isSpecialRefVar |-> FALSE],
   [ident |-> "l", isDataseg |-> FALSE, isExtern |-> FALSE, isSpecialRefVar |-> FALSE],
   [ident |-> "r", isDataseg |-> FALSE, isExtern |-> FALSE, isSpecialRefVar |-> TRUE]}

StoragePointees == {<<"i32">>, <<"i64">>, <<"[", "3", "i8">>}

MakeVarDValue ==
  /\ ~aborted
  /\ ops < MaxStorageOps
  /\ \E type \in VarTypes : \E vd \in VarDeclarations : \E pointee \in StoragePointees :
       LET storage == LLValue((IF vd.isSpecialRefVar THEN <<"*", "*">> ELSE <<"*">>)
                                \o pointee, <<>>)
       IN Bind(makeVarDValue(CastState, type, vd, storage), LAMBDA r :
            /\ StorageLeaves(r.st)
            /\ last' = [op |-> "makeVarDValue", type |-> type, vd |-> vd,
                        pointee |-> pointee, before |-> values,
                        nInstsBefore |-> Len(scopebb), ret |-> r.d,
                        diags |-> r.st.diags])

\* the contents the values start with
StorageBits(t) ==
  IF DTypes[t].ty = "Tbool" THEN {<<0>>, <<1>>}
  ELSE IF DTypes[t].ty \in IntegralTys THEN {Fill(size(t), 255)}
  ELSE {<<>>}

Constant(type, bits) == [Immediate(type, bits) EXCEPT !.kind = "DConstValue"]

Slice(type) == [Immediate(type, <<>>) EXCEPT !.kind = "DSliceValue"]

\* the values at hand: variables in memory, values in registers, constants
\* and a slice
StorageValues ==
  {InMemory(t, "%x", "x", bits) : <<t, bits>> \in
     UNION {{t} \X StorageBits(t) : t \in {"bool", "int", "S", "int2", "intarr"}}}
  \cup {Immediate(t, bits) : <<t, bits>> \in
     UNION {{t} \X StorageBits(t) : t \in {"bool", "short", "long", "float", "int4", "C"}}}
  \cup {Constant(t, bits) : <<t, bits>> \in
     UNION {{t} \X StorageBits(t) : t \in {"bool", "int"}}}
  \cup {Slice("intarr")}

InitStorage ==
  /\ target = [arch |-> "x86", windows |-> FALSE, threadModel |-> clThreadModelDefault]
  /\ module = <<>>
  /\ errors = 0
  /\ aborted = FALSE
  /\ gag = 0
  /\ gaggedErrors = 0
  /\ stringLiteralCache = <<>>
  /\ structLiteralCache = <<>>
  /\ inuse = <<>>
  /\ overflow = FALSE
  /\ \E v \in StorageValues : values = <<v>>
  /\ scopebb = <<>>
  /\ tf = <<>>
  /\ irFuncTys = <<>>
  /\ last = [op |-> "none"]
  /\ ops = 0

NextStorage == MakeLValue \/ AllocaDump \/ MakeVarDValue

SpecStorage == InitStorage /\ [][NextStorage]_vars

-----------------------------------------------------------------------------
(* C22 *)

IsMakeLValue == last.op = "makeLValue"

\* the slots the last operation allocated and the stores it emitted
Allocas == {k \in DOMAIN Emitted : Emitted[k].op = "alloca"}

Stores == {k \in DOMAIN Emitted : Emitted[k].op = "store"}

\* C22: makeLValue returns the address the value already has, and emits
\* nothing, when the value is addressable; for an immediate or a constant it
\* allocates exactly one stack slot, of the memory type of the value's type
\* and aligned for that type, stores the value into it exactly once and
\* returns the slot's address; the values it was given are the same objects
\* with the same contents afterwards.
C22_MakeLValueSpillsOnlyRegisters ==
  IsMakeLValue =>
    LET value == last.before[last.val]
    IN /\ values = last.before
       /\ value.kind = "DLValue" =>
            /\ Emitted = <<>>
            /\ last.addr = value.addr
            /\ last.slot = 0
       /\ value.kind \in {"DImValue", "DConstValue"} =>
            /\ Cardinality(Allocas) = 1
            /\ Cardinality(Stores) = 1
            /\ \A k \in Allocas :
                 /\ last.slot = last.nInstsBefore + k
                 /\ Emitted[k].from = DtoMemType(value.type)
                 /\ Emitted[k].align = DtoAlignment(value.type)
                 /\ \A s \in Stores : k < s /\ Emitted[s].to = Emitted[k].to
            /\ last.addr = ""
            /\ last.ret.ty = <<"*">> \o DtoMemType(value.type)
            /\ last.ret.bits = value.val.bits

C22_Witness ==
  /\ IsMakeLValue
  /\ last.before[last.val].kind = "DImValue"
  /\ last.before[last.val].type = "bool"
  /\ Cardinality(Allocas) = 1
  /\ last.slot > 0

C22_WitnessAddressable ==
  /\ IsMakeLValue
  /\ last.before[last.val].kind = "DLValue"
  /\ last.addr = "%x"

C22_WitnessConstant ==
  /\ IsMakeLValue
  /\ last.before[last.val].kind = "DConstValue"
  /\ Cardinality(Stores) = 1

-----------------------------------------------------------------------------
(* C23 *)

\* C23: makeVarDValue yields an lvalue only when the store size of the type
\* asked for is at most the store size of what the storage points to (the
\* process ends on an assertion otherwise, and no value is made); and the
\* slot DtoAllocaDump allocates for a register value is at least as large as
\* the store size of the value written into it.
C23_StorageNeverSmaller ==
  /\ last.op = "makeVarDValue" =>
       LET fits == TypeStoreSize(DtoType(last.type)) <= TypeStoreSize(last.pointee)
       IN /\ last.ret # 0 => fits /\ ~aborted
          /\ ~fits => /\ aborted
                      /\ "assert" \in last.diags
                      /\ last.ret = 0
                      /\ values = last.before
  /\ (last.op = "DtoAllocaDump" /\ last.before[last.val].kind # "DLValue") =>
       /\ Cardinality(Allocas) = 1
       /\ \A k \in Allocas : \A s \in Stores :
            /\ k < s
            /\ TypeAllocSize(Emitted[k].from) >= TypeStoreSize(Emitted[s].from)
            /\ TypeStoreSize(Emitted[s].from)
                 = TypeStoreSize(i1ToI8(last.before[last.val].val.ty))
       /\ Cardinality(Stores) = 1

C23_Witness ==
  /\ last.op = "DtoAllocaDump"
  /\ last.before[last.val].type = "long"
  /\ last.asType = "short"
  /\ \E k \in Allocas : Emitted[k].from = <<"i64">>

C23_WitnessAssertion ==
  /\ last.op = "makeVarDValue"
  /\ last.type = "long"
  /\ last.pointee = <<"i32">>
  /\ last.vd.isDataseg
  /\ aborted

C23_WitnessReinterpreted ==
  /\ last.op = "makeVarDValue"
  /\ last.type = "int"
  /\ last.pointee = <<"i64">>
  /\ last.ret # 0
  /\ values[last.ret].kind = "DLValue"


-----------------------------------------------------------------------------
(* C24 *)

\* the bytes between a constant address and the symbol it is based on: a
\* one-index GEP moves by whole elements, each the alloc size of the pointee
RECURSIVE ByteOffset(_)
ByteOffset(c) ==
  CASE c.k = "gep" /\ Len(c.idxs) = 1 ->
         ByteOffset(c.base) + c.idxs[1] * TypeAllocSize(Tail(c.base.ty))
    [] c.k = "bitcast" -> ByteOffset(c.base)
    [] OTHER -> 0

\* the constant without the bitcasts around it
RECURSIVE Uncast(_)
Uncast(c) == IF c.k = "bitcast" THEN Uncast(c.base) ELSE c

IsSymOffFold ==
  /\ last.op \in {"toConstElem", "tryToConstElem"}
  /\ Exps[last.e].op = "SymOffExp"

\* the form the folded address has: the base itself for offset 0, an element
\* index for a multiple of the pointee's store size, a byte index through an
\* i8* view otherwise; nothing is built on a null base
SymOffForm ==
  LET x == Exps[last.e]
      addr == Uncast(last.ret)
  IN IF last.diags # {} THEN addr.k \notin {"gep", "global", "function"}
     ELSE /\ last.returned
          /\ last.ret.ty = DtoType(x.type)
          /\ x.n = 0 => addr.k \in {"global", "function"}
          /\ x.n # 0 =>
               /\ addr.k = "gep"
               /\ LET elemSize == TypeStoreSize(Tail(Uncast(addr.base).ty))
                  IN IF x.n % elemSize = 0
                       THEN addr.base.k = "global" /\ addr.idxs = <<x.n \div elemSize>>
                       ELSE /\ addr.base.ty = <<"*", "i8">>
                            /\ addr.idxs = <<x.n>>

\* C24: the constant a SymOffExp folds to has one of the three forms, and in
\* each of them it denotes the address of the symbol plus the expression's
\* offset in bytes; on a null base the fold fails and no offset is applied.
C24_SymOffDenotesBasePlusOffset ==
  IsSymOffFold =>
    /\ SymOffForm
    /\ last.diags = {} => ByteOffset(last.ret) = Exps[last.e].n

\* C24, what holds in every run: the forms are as stated, and the address is
\* the symbol's plus the offset unless the element form is taken over a
\* pointee whose alloc size is not its store size
C24_SymOffExactUnlessPadded ==
  IsSymOffFold =>
    /\ SymOffForm
    /\ last.diags = {} =>
         \/ ByteOffset(last.ret) = Exps[last.e].n
         \/ /\ Uncast(last.ret).k = "gep"
            /\ Uncast(last.ret).base.k = "global"
            /\ TypeAllocSize(Tail(Uncast(last.ret).base.ty))
                 # TypeStoreSize(Tail(Uncast(last.ret).base.ty))

\* the address ten bytes into an 80-bit real folds to the address of the
\* element after it, sixteen bytes on
C24_PaddedElement ==
  /\ IsSymOffFold
  /\ last.e = "symoff_r10"
  /\ last.diags = {}
  /\ ByteOffset(last.ret) = 16


-----------------------------------------------------------------------------
(* C25 *)

\* an assignment DtoAssign's last branch handles
IsScalarAssign ==
  /\ last.op = "DtoAssign"
  /\ DTypes[toBasetype(last.before[last.lhs].type)].ty
       \notin {"Tbool", "Tstruct", "Tarray", "Tsarray", "Tdelegate", "Tclass", "Tcomplex32"}

\* the IR type the destination's address points to
DestinationType == last.before[last.lhs].val.ty

CastsEmitted ==
  {k \in DOMAIN Emitted : Emitted[k].op \notin {"load", "store"}}

\* C25: an assignment of the last branch that returns stores exactly once,
\* last of all, through the destination's address, and the value stored has
\* exactly the IR type the destination points to: as it is when the source
\* has that type already, after a cast (and a bitcast where the cast's result
\* still has another type) otherwise.
C25_StoredValueHasDestinationType ==
  (IsScalarAssign /\ ~aborted) =>
    /\ Emitted # <<>>
    /\ \A k \in DOMAIN Emitted :
         Emitted[k].op = "store" <=> k = Len(Emitted)
    /\ Emitted[Len(Emitted)].to = <<"*">> \o DestinationType
    /\ Emitted[Len(Emitted)].from = DestinationType
    /\ last.before[last.rhs].val.ty = DestinationType => CastsEmitted = {}
    /\ last.before[last.rhs].val.ty # DestinationType =>
         /\ CastsEmitted # {}
         /\ \A k \in CastsEmitted : k = Len(Emitted) - 1 => Emitted[k].to = DestinationType

\* int = short: a sign extension, then the store of an i32
C25_Witness ==
  /\ IsScalarAssign
  /\ ~aborted
  /\ last.before[last.lhs].type = "int"
  /\ last.before[last.rhs].type = "short"
  /\ \E k \in CastsEmitted : Emitted[k].op = "sext"
  /\ Emitted[Len(Emitted)].from = <<"i32">>

\* a pointer stored through an address of another pointee type: the cast
\* changes nothing, the bitcast does
C25_WitnessBitCast ==
  /\ IsScalarAssign
  /\ ~aborted
  /\ last.before[last.lhs].type = "intptr"
  /\ DestinationType = <<"*", "i8">>
  /\ \E k \in CastsEmitted : Emitted[k].op = "bitcast"


-----------------------------------------------------------------------------
(* C26 *)

\* whether a null constant is the constant or any part of it (the elements
\* of an array of i8 or i16 are a string's code units)
RECURSIVE HasNull(_)
HasNull(c) ==
  CASE c.k = "nullptr" -> TRUE
    [] c.k = "array" -> /\ c.ty[3] \notin {"i8", "i16"}
                        /\ \E k \in DOMAIN c.elems : HasNull(c.elems[k])
    [] c.k = "struct" -> \E k \in DOMAIN c.fields : HasNull(c.fields[k])
    [] c.k \in {"gep", "bitcast", "inttoptr"} -> HasNull(c.base)
    [] c.k = "slice" -> HasNull(c.ptr)
    [] OTHER -> FALSE

\* C26: toConstElem never hands a null constant to its caller, as the result
\* or as a part of it: when the visitor left no constant and the compilation
\* goes on, the result is the undef constant of the expression's IR type, and
\* what the visitor left otherwise.
C26_ToConstElemNeverNull ==
  (last.op = "toConstElem" /\ last.returned) =>
    /\ ~HasNull(last.ret)
    /\ last.ret = IF isNull(last.ce) THEN CUndef(DtoType(Exps[last.e].type)) ELSE last.ce

\* an expression that is no constant, folded under gagging: the error is
\* suppressed, the compilation goes on, the caller gets undef of type int
C26_Witness ==
  /\ last.op = "toConstElem"
  /\ last.returned
  /\ last.e = "call"
  /\ isNull(last.ce)
  /\ last.ret = CUndef(<<"i32">>)

\* a struct literal with a failed element: the undef is the element
C26_WitnessNested ==
  /\ last.op = "toConstElem"
  /\ last.returned
  /\ last.e = "sl_nonconst"
  /\ last.ret.k = "struct"
  /\ last.ret.fields[1] = CUndef(<<"i32">>)


-----------------------------------------------------------------------------
(* C27 *)

\* the arguments of a descriptor that carry InReg: implicit ones by name,
\* explicit ones by position
InRegArgs(fty) ==
  {n \in {"arg_this", "arg_nest", "arg_sret"} : HasInReg(fty[n])}
  \cup {k \in DOMAIN fty.args : HasInReg(fty.args[k])}

BothStructRetAndInReg(arg) == arg.present /\ {"StructRet", "InReg"} \subseteq arg.attrs

\* C27: in the descriptor of an extern(D) function at most one argument
\* carries InReg: `this` if there is one, else the context pointer, else the
\* sret pointer, else nothing but the last explicit argument; an sret pointer
\* put in the register has lost its StructRet, one left on the stack keeps
\* it, and no argument of any descriptor carries both attributes.
C27_OneRegisterArgument ==
  \A fty \in Descriptors :
    /\ ~BothStructRetAndInReg(fty.arg_sret)
    /\ ~BothStructRetAndInReg(fty.arg_this)
    /\ ~BothStructRetAndInReg(fty.arg_nest)
    /\ \A k \in DOMAIN fty.args : ~BothStructRetAndInReg(fty.args[k])
    /\ isExternD(fty.type) =>
         /\ Cardinality(InRegArgs(fty)) <= 1
         /\ InRegArgs(fty) \subseteq
              (IF fty.arg_this.present THEN {"arg_this"}
               ELSE IF fty.arg_nest.present THEN {"arg_nest"}
               ELSE IF fty.arg_sret.present THEN {"arg_sret"}
               ELSE {Len(fty.args)})
         /\ (fty.arg_this.present \/ fty.arg_nest.present \/ fty.arg_sret.present)
              => InRegArgs(fty) # {}
         /\ fty.arg_sret.present =>
              ("StructRet" \in fty.arg_sret.attrs <=> ~HasInReg(fty.arg_sret))

\* a struct returned through sret by a function without this and context,
\* with a small last parameter: the sret pointer takes the register
C27_Witness ==
  /\ irFuncTys # <<>>
  /\ isExternD(tf)
  /\ tf.implicit = "none"
  /\ irFuncTys[1].arg_sret.present
  /\ tf.params # <<>>
  /\ tf.params[Len(tf.params)] = [type |-> "int", ref |-> FALSE]
  /\ InRegArgs(irFuncTys[1]) = {"arg_sret"}
  /\ "StructRet" \notin irFuncTys[1].arg_sret.attrs

\* a method returning through sret: `this` takes the register, sret keeps
\* its StructRet
C27_WitnessThis ==
  /\ irFuncTys # <<>>
  /\ isExternD(tf)
  /\ tf.implicit = "this"
  /\ irFuncTys[1].arg_sret.present
  /\ InRegArgs(irFuncTys[1]) = {"arg_this"}
  /\ "StructRet" \in irFuncTys[1].arg_sret.attrs


-----------------------------------------------------------------------------
(* C28 *)

IsFoldCall == last.op \in {"toConstElem", "tryToConstElem"}

\* C28: a call of tryToConstElem that returns, with a constant or with null,
\* leaves the gag level and the count of gagged errors as it found them,
\* however deep the folds nested in it went; toConstElem does not touch the
\* gag level at all.
C28_GagBalanced ==
  (IsFoldCall /\ last.returned) =>
    /\ gag = last.gagBefore
    /\ last.op = "tryToConstElem" => gaggedErrors = last.gaggedBefore

\* a failed fold inside a context that gags already: null, and the level is
\* the caller's again
C28_Witness ==
  /\ last.op = "tryToConstElem"
  /\ last.returned
  /\ last.gagBefore = 1
  /\ last.diags # {}
  /\ isNull(last.ret)
  /\ gag = 1

\* a fold that nests folds of its elements and succeeds
C28_WitnessNested ==
  /\ last.op = "tryToConstElem"
  /\ last.returned
  /\ last.e = "sl_plain"
  /\ last.gagBefore = 0
  /\ ~isNull(last.ret)
  /\ gag = 0


-----------------------------------------------------------------------------
(* C29 *)

\* vd->inuse of a declaration, in the state and as the last call found it
InUseNow(v) == IF v \in DOMAIN inuse THEN inuse[v] ELSE 0

InUseBefore(v) == IF v \in DOMAIN last.inuseBefore THEN last.inuseBefore[v] ELSE 0

\* the constant variables whose initializer refers to the variable itself
SelfReferring == {"c_rec"}

\* the folds that reach the initializer of a self-referring constant
ReachesSelfReference == {"v_rec", "sl_rec"}

\* C29: a fold that returns leaves the in-use counter of every variable as
\* it found it; the counter is up while the variable's initializer is
\* folded, so a reference to the variable from its own initializer is
\* reported as a recursive reference and yields no constant of its own (the
\* enclosing literal gets undef in its place) instead of being folded again.
C29_InUseBalanced ==
  (IsFoldCall /\ last.returned) =>
    /\ \A v \in DOMAIN Decls : InUseNow(v) = InUseBefore(v)
    /\ last.e \in ReachesSelfReference =>
         /\ "recursive reference" \in last.diags
         /\ ~overflow
         /\ last.op = "tryToConstElem" => isNull(last.ret)
         /\ last.op = "toConstElem" =>
              LET literal == IF last.e = "v_rec" THEN last.ret ELSE last.ret.fields[1]
              IN /\ literal.k = "struct"
                 /\ literal.fields[1] = CUndef(DtoType("S"))
    /\ "recursive reference" \in last.diags => last.e \in ReachesSelfReference

\* a constant whose initializer refers to it, folded: reported, the counter
\* back at 0
C29_Witness ==
  /\ last.op = "toConstElem"
  /\ last.returned
  /\ last.e = "v_rec"
  /\ "recursive reference" \in last.diags
  /\ "c_rec" \in DOMAIN inuse
  /\ inuse["c_rec"] = 0

\* a constant folded twice, the second fold as good as the first
C29_WitnessAgain ==
  /\ last.op = "toConstElem"
  /\ last.returned
  /\ last.e = "v_ok"
  /\ "c_ok" \in DOMAIN last.inuseBefore
  /\ last.diags = {}
  /\ last.ret.k = "int"


-----------------------------------------------------------------------------
(* Definition model: defineGlobal on the module's registry of globals *)

\* llvm::GlobalVariable::isDeclaration: it has no initializer
isDeclaration(g) == g.init = NoInit

\* no symbol given for linkage and visibility
NoSymbol == [linkage |-> ""]

\* setLinkageAndVisibility(sym, global), when a symbol is given
setLinkageAndVisibility(sym, g) ==
  IF sym = NoSymbol THEN g ELSE [g EXCEPT !.linkage = sym.linkage]

\* the slip: a global defined already is given the later initializer
defineGlobal_Overwrite(mod, g, init, sym) ==
  [module |-> [mod EXCEPT ![g] = setLinkageAndVisibility(sym, [@ EXCEPT !.init = init])],
   asserted |-> FALSE]

\* defineGlobal(global, init, symbolForLinkageAndVisibility): asserted tells
\* that one of its two assertions failed
defineGlobal(mod, g, init, sym) ==
  IF ~isDeclaration(mod[g]) \/ init = NoInit
    THEN [module |-> mod, asserted |-> TRUE]
    ELSE [module |-> [mod EXCEPT ![g] = setLinkageAndVisibility(sym, [@ EXCEPT !.init = init])],
          asserted |-> FALSE]

\* defineGlobal(loc, module, mangledName, init, linkage, isConstant,
\* isThreadLocal): declared with the initializer's type, defined, linked
defineGlobalByName(mod, tgt, mangledName, init, linkage, isConstant, isThreadLocal) ==
  IF init = NoInit
    THEN [module |-> mod, gvar |-> 0, fatal |-> FALSE, error |-> FALSE, asserted |-> TRUE]
    ELSE Bind(declareGlobal(mod, tgt, init.ty, mangledName, isConstant, isThreadLocal, FALSE),
              LAMBDA d :
           IF d.fatal
             THEN [module |-> d.module, gvar |-> 0, fatal |-> TRUE, error |-> d.error,
                   asserted |-> FALSE]
             ELSE Bind(defineGlobal(d.module, d.gvar, init, NoSymbol), LAMBDA r :
                    IF r.asserted
                      THEN [module |-> r.module, gvar |-> 0, fatal |-> FALSE,
                            error |-> FALSE, asserted |-> TRUE]
                      ELSE [module |-> [r.module EXCEPT ![d.gvar].linkage = linkage],
                            gvar |-> d.gvar, fatal |-> FALSE, error |-> FALSE,
                            asserted |-> FALSE]))

\* the initializers at hand (none among them), the symbols and the linkages
Initializers ==
  {NoInit, CInt(<<"i32">>, <<1, 0, 0, 0>>), CInt(<<"i32">>, <<2, 0, 0, 0>>),
   CInt(<<"i64">>, Fill(8, 0))}

Symbols == {NoSymbol, [linkage |-> "WeakODR"]}

DefinedLinkages == {"Internal", "External"}

\* defineGlobal on a global of the module; the initializer has the global's
\* type, as llvm::GlobalVariable::setInitializer requires
DefineGlobal ==
  /\ ~aborted
  /\ ops < MaxDefineOps
  /\ \E g \in 1..Len(module) : \E sym \in Symbols :
     \E init \in {c \in Initializers : c = NoInit \/ c.ty = module[g].type} :
       Bind(defineGlobal(module, g, init, sym), LAMBDA r :
         /\ module' = r.module
         /\ aborted' = r.asserted
         /\ errors' = errors
         /\ last' = [op |-> "defineGlobal", global |-> g, init |-> init, before |-> module,
                     asserted |-> r.asserted, fatal |-> FALSE])
  /\ ops' = ops + 1
  /\ UNCHANGED <<target, foldVars, castVars, abiVars>>

DefineGlobalByName ==
  /\ ~aborted
  /\ ops < MaxDefineOps
  /\ \E name \in MangledNames : \E init \in Initializers : \E linkage \in DefinedLinkages :
     \E isConstant \in BOOLEAN :
       Bind(defineGlobalByName(module, target, name, init, linkage, isConstant, FALSE),
            LAMBDA r :
         /\ module' = r.module
         /\ aborted' = (r.asserted \/ r.fatal)
         /\ errors' = IF r.error THEN errors + 1 ELSE errors
         /\ last' = [op |-> "defineGlobal", global |-> getGlobalVariable(module, name),
                     init |-> init, before |-> module, asserted |-> r.asserted,
                     fatal |-> r.fatal])
  /\ ops' = ops + 1
  /\ UNCHANGED <<target, foldVars, castVars, abiVars>>

InitDefine ==
  /\ target = [arch |-> "x86", windows |-> FALSE, threadModel |-> clThreadModelDefault]
  /\ InitCommon

NextDefine == DeclareGlobal \/ DefineGlobal \/ DefineGlobalByName

SpecDefine == InitDefine /\ [][NextDefine]_vars

-----------------------------------------------------------------------------
(* C30 *)

IsDefine == last.op = "defineGlobal"

\* the call was for a global that had its initializer already
AlreadyDefined == last.global # 0 /\ ~isDeclaration(last.before[last.global])

\* C30: a global of the module gets an initializer at most once: defineGlobal
\* on a global that is still a declaration sets the initializer given; on a
\* global that has one already it fails its assertion (or, called by name
\* with another type or constant-ness, the fatal error of declareGlobal)
\* and the module is as it was; so no call ever changes or removes an
\* initializer that was set.
C30_DefinedAtMostOnce ==
  /\ last.op # "none" =>
       \A i \in DOMAIN last.before :
         ~isDeclaration(last.before[i]) => module[i].init = last.before[i].init
  /\ (IsDefine /\ AlreadyDefined) =>
       /\ aborted
       /\ module = last.before
       /\ last.asserted # last.fatal
  /\ (IsDefine /\ ~aborted) =>
       /\ ~last.asserted
       /\ last.init # NoInit
       /\ LET i == IF last.global # 0 THEN last.global ELSE Len(module)
          IN /\ module[i].init = last.init
             /\ last.global # 0 => isDeclaration(last.before[i])
             /\ last.global = 0 => Len(module) = Len(last.before) + 1

\* a second definition of a defined global: the assertion, nothing changed
C30_Witness ==
  /\ IsDefine
  /\ AlreadyDefined
  /\ last.init # NoInit
  /\ last.init # last.before[last.global].init
  /\ last.asserted
  /\ aborted
  /\ module[last.global].init = last.before[last.global].init

\* a declaration defined
C30_WitnessFirst ==
  /\ IsDefine
  /\ last.global # 0
  /\ isDeclaration(last.before[last.global])
  /\ ~aborted
  /\ module[last.global].init = last.init

=============================================================================
